---- MODULE Spec2Model ----
(***************************************************************************)
(* A model of github.com/garyburd/web: the path router and the host router *)
(* of package router (pattern compilation, registration, dispatch).        *)
(*                                                                         *)
(* Strings are sequences of bytes; a byte is written as the one-character  *)
(* string it prints as ("/", "a", "%"), and a byte outside the table Ascii *)
(* as "#" followed by its decimal value.                                   *)
(***************************************************************************)
EXTENDS Integers, Sequences, FiniteSets, TLC

VARIABLES
    simpleMatch,      \* Router.simpleMatch: literal key -> route id
    routes,           \* Router.routes: the regex routes, in registration order
    routeObjs,        \* the *Route objects the two fields above point to
    useURLPath,       \* Router.useURLPath
    hostSimpleMatch,  \* HostRouter.simpleMatch: literal host -> hostRoute
    hostRoutes,       \* HostRouter.routes: the regex host routes, in order
    call,             \* the last call made on a router and what it produced
    serving,          \* the Serve calls in progress: goroutine -> position, request
    locals,           \* the local variables of the Serve calls in progress
    cc,               \* the cookie Codec
    now,              \* the clock of package cookie: now().Unix()
    issued,           \* the signed cookies Encode issued, in order
    manager,          \* the templates Manager
    templates,        \* Manager.templates: the Templates
    texec,            \* the calls in progress on the templates: goroutine -> call
    tcalls            \* the number of calls made on the templates

vars == <<simpleMatch, routes, routeObjs, useURLPath, hostSimpleMatch, hostRoutes, call,
          serving, locals, cc, now, issued, manager, templates, texec, tcalls>>

\* The state of the routers.
routerVars == <<simpleMatch, routes, routeObjs, useURLPath, hostSimpleMatch, hostRoutes,
                serving, locals>>

\* The state of package cookie.
cookieVars == <<cc, now, issued>>

\* The state of package templates.
templateVars == <<manager, templates, texec, tcalls>>

\* The state of the other packages.
nonRouterVars == <<cookieVars, templateVars>>

(***************************************************************************)
(* Bounds of the model.                                                    *)
(***************************************************************************)
\* Add calls made on one router.
MaxRoutes == 2
\* Path segments of a request target.
MaxSegs == 2
\* Labels of a Host header value.
MaxLabels == 2
\* Bytes of a path given to normalize.
MaxPathLen == 5
\* Bytes of a string given to percentDecode.
MaxDecodeLen == 4
\* Serve calls in progress at the same time.
MaxServing == 2
\* Values given to encodeValues at once.
MaxValues == 2
\* Seconds that pass on the clock of package cookie.
MaxNow == 3
\* Signed cookies issued by one codec.
MaxIssued == 2
\* Fields of the struct type given to FieldsForType.
MaxFields == 3
\* Goroutines that call the templates.
MaxCallers == 2
\* Calls made on the templates.
MaxTemplateCalls == 3
\* Redirects a client follows.
MaxHops == 3

(***************************************************************************)
(* Bytes and strings.                                                      *)
(***************************************************************************)
\* The byte values of the characters the model writes.
Ascii ==
    (" " :> 32) @@ ("!" :> 33) @@ ("\"" :> 34) @@ ("$" :> 36) @@ ("%" :> 37) @@ ("(" :> 40) @@ (")" :> 41) @@ ("*" :> 42) @@
    ("+" :> 43) @@ ("-" :> 45) @@ ("." :> 46) @@ ("/" :> 47) @@ ("0" :> 48) @@ ("1" :> 49) @@
    ("2" :> 50) @@ ("3" :> 51) @@ ("4" :> 52) @@ ("5" :> 53) @@ ("6" :> 54) @@
    ("7" :> 55) @@ ("8" :> 56) @@ ("9" :> 57) @@ (":" :> 58) @@
    ("<" :> 60) @@ (">" :> 62) @@ ("?" :> 63) @@ ("A" :> 65) @@ ("B" :> 66) @@
    ("F" :> 70) @@ ("G" :> 71) @@ ("P" :> 80) @@ ("Z" :> 90) @@ ("[" :> 91) @@
    ("\\" :> 92) @@
    ("]" :> 93) @@ ("^" :> 94) @@ ("_" :> 95) @@ ("a" :> 97) @@ ("b" :> 98) @@
    ("f" :> 102) @@ ("g" :> 103) @@ ("q" :> 113) @@ ("x" :> 120) @@ ("y" :> 121) @@
    ("z" :> 122) @@ ("|" :> 124)

\* The byte value of a character of a string.
Ord(c) == Ascii[c]

\* The character of a byte value.
Chr(b) ==
    IF \E c \in DOMAIN Ascii : Ascii[c] = b
    THEN CHOOSE c \in DOMAIN Ascii : Ascii[c] = b
    ELSE "#" \o ToString(b)

\* strings.Index(s, c) for a single byte c, 1-based; 0 when c is not in s.
IndexByte(s, c) ==
    IF \E i \in 1..Len(s) : s[i] = c
    THEN CHOOSE i \in 1..Len(s) : s[i] = c /\ \A j \in 1..(i-1) : s[j] # c
    ELSE 0

\* strings.LastIndex(s, c) for a single byte c, 1-based; 0 when c is not in s.
LastIndexByte(s, c) ==
    IF \E i \in 1..Len(s) : s[i] = c
    THEN CHOOSE i \in 1..Len(s) : s[i] = c /\ \A j \in (i+1)..Len(s) : s[j] # c
    ELSE 0

\* strings.HasSuffix(s, "/").
EndsInSlash(s) == s # <<>> /\ s[Len(s)] = "/"

RECURSIVE JoinSlash(_)
\* strings.Join(elems, "/").
JoinSlash(elems) ==
    IF elems = <<>> THEN <<>>
    ELSE IF Len(elems) = 1 THEN elems[1]
    ELSE elems[1] \o <<"/">> \o JoinSlash(Tail(elems))

RECURSIVE SplitSlash(_)
\* strings.Split(s, "/"): the elements between the separators, empty ones kept.
SplitSlash(s) ==
    LET i == IndexByte(s, "/")
    IN  IF i = 0 THEN <<s>>
        ELSE <<SubSeq(s, 1, i - 1)>> \o SplitSlash(SubSeq(s, i + 1, Len(s)))

(***************************************************************************)
(* Standard library: path.Clean.                                           *)
(***************************************************************************)
RECURSIVE cleanElems(_, _, _)
\* The elements Clean keeps: "" and "." are dropped, ".." removes the element
\* before it, is dropped at the root, and is kept at the start of a relative
\* path.
cleanElems(elems, out, rooted) ==
    IF elems = <<>> THEN out
    ELSE LET e == Head(elems)
             rest == Tail(elems)
         IN  IF e = <<>> \/ e = <<".">> THEN cleanElems(rest, out, rooted)
             ELSE IF e = <<".", ".">>
             THEN IF out # <<>> /\ out[Len(out)] # <<".", ".">>
                  THEN cleanElems(rest, SubSeq(out, 1, Len(out) - 1), rooted)
                  ELSE IF rooted THEN cleanElems(rest, out, rooted)
                  ELSE cleanElems(rest, Append(out, e), rooted)
             ELSE cleanElems(rest, Append(out, e), rooted)

\* path.Clean(p): the shortest path name equivalent to p by purely lexical
\* processing; "." for the empty result.
pathClean(p) ==
    IF p = <<>> THEN <<".">>
    ELSE LET rooted == p[1] = "/"
             kept == JoinSlash(cleanElems(SplitSlash(p), <<>>, rooted))
             res == IF rooted THEN <<"/">> \o kept ELSE kept
         IN  IF res = <<>> THEN <<".">> ELSE res

(***************************************************************************)
(* Standard library: package regexp.  A compiled expression is a tree of   *)
(* nodes: "set" (one byte of a class), "bol" and "eol" (the ends of the    *)
(* text), "cat" (a sequence), "alt" (alternatives, the leftmost first),    *)
(* "rep" (a repetition, min to 1 or, if many, any number of times, greedy  *)
(* unless lazy) and "cap" (capturing group g).  A matcher state is a       *)
(* position in the text and, for each group, the bounds of what it         *)
(* captured last.                                                          *)
(***************************************************************************)
\* The class of the single byte c.
classOf(c) == [neg |-> FALSE, set |-> {c}]

\* Whether byte c is in class cls.
inClass(cls, c) == (c \in cls.set) # cls.neg

\* The states of outs with group g closed: it began at from.
closeCap(g, from, outs) ==
    [k \in 1..Len(outs) |-> [outs[k] EXCEPT !.caps[g] = <<from, outs[k].pos>>]]

\* The states of outs that lie after position pos.
advancing(outs, pos) == SelectSeq(outs, LAMBDA o : o.pos > pos)

\* Two lists of states in the order a repetition tries them: more first when
\* greedy, fewer first when lazy.
prefer(lazy, more, fewer) == IF lazy THEN fewer \o more ELSE more \o fewer

RECURSIVE run(_, _, _)
RECURSIVE runEach(_, _, _)
RECURSIVE runCat(_, _, _, _)
RECURSIVE runAlt(_, _, _, _)
RECURSIVE runStar(_, _, _)
RECURSIVE runStarEach(_, _, _)
\* Node n against text s from state st: the states the match can end in, in
\* the order the matcher prefers them (leftmost-first).
run(n, s, st) ==
    CASE n.t = "set" -> IF st.pos <= Len(s) /\ inClass(n.cls, s[st.pos])
                        THEN <<[st EXCEPT !.pos = @ + 1]>>
                        ELSE <<>>
      [] n.t = "bol" -> IF st.pos = 1 THEN <<st>> ELSE <<>>
      [] n.t = "eol" -> IF st.pos = Len(s) + 1 THEN <<st>> ELSE <<>>
      [] n.t = "cat" -> runCat(n.a, 1, s, <<st>>)
      [] n.t = "alt" -> runAlt(n.a, 1, s, st)
      [] n.t = "cap" -> closeCap(n.g, st.pos, run(n.e, s, st))
      [] n.t = "rep" -> IF ~n.many THEN prefer(n.lazy, run(n.e, s, st), <<st>>)
                        ELSE IF n.min = 0 THEN runStar(n, s, st)
                        ELSE runStarEach(n, s, run(n.e, s, st))

\* Node n from each state of sts, in order.
runEach(n, s, sts) ==
    IF sts = <<>> THEN <<>>
    ELSE run(n, s, Head(sts)) \o runEach(n, s, Tail(sts))

\* The nodes a[k..] one after the other, from the states sts.
runCat(a, k, s, sts) ==
    IF k > Len(a) THEN sts
    ELSE runCat(a, k + 1, s, runEach(a[k], s, sts))

\* The alternatives a[k..] from state st.
runAlt(a, k, s, st) ==
    IF k > Len(a) THEN <<>>
    ELSE run(a[k], s, st) \o runAlt(a, k + 1, s, st)

\* Zero or more times the operand of repetition n, from state st; a round
\* that takes no byte ends the repetition.
runStar(n, s, st) ==
    prefer(n.lazy, runStarEach(n, s, advancing(run(n.e, s, st), st.pos)), <<st>>)

\* runStar from each state of sts, in order.
runStarEach(n, s, sts) ==
    IF sts = <<>> THEN <<>>
    ELSE runStar(n, s, Head(sts)) \o runStarEach(n, s, Tail(sts))

RECURSIVE findFrom(_, _, _)
\* The match that starts at position p and ends in the first state of outs:
\* the whole match, then the text of each capturing group; the search goes
\* on at the next position when outs is empty.
submatch(re, s, p, outs) ==
    IF outs = <<>> THEN findFrom(re, s, p + 1)
    ELSE <<SubSeq(s, p, outs[1].pos - 1)>>
         \o [g \in 1..(Len(re.names) - 1) |->
                SubSeq(s, outs[1].caps[g][1], outs[1].caps[g][2] - 1)]

\* The leftmost match of re in s that starts at position p or later; <<>>
\* when there is none.
findFrom(re, s, p) ==
    IF p > Len(s) + 1 THEN <<>>
    ELSE submatch(re, s, p,
                  run(re.root, s,
                      [pos |-> p, caps |-> [g \in 1..(Len(re.names) - 1) |-> <<1, 1>>]]))

\* Regexp.FindStringSubmatch(s): <<>> (nil) when s does not match, else the
\* whole match followed by the text of each capturing group.
FindStringSubmatch(re, s) == findFrom(re, s, 1)

\* Regexp.SubexpNames(): the empty name for the whole match, then the name
\* of each capturing group.
SubexpNames(re) == re.names

\* regexp.QuoteMeta(s): a backslash before each byte with a meaning in an
\* expression.
QuoteMeta(s) ==
    LET RECURSIVE quote(_)
        quote(k) ==
            IF k > Len(s) THEN <<>>
            ELSE (IF s[k] \in {"\\", ".", "+", "*", "?", "(", ")", "|",
                               "[", "]", "{", "}", "^", "$"}
                  THEN <<"\\", s[k]>>
                  ELSE <<s[k]>>) \o quote(k + 1)
    IN  quote(1)

(***************************************************************************)
(* Standard library: regexp.Compile, for this syntax: alternatives "|",    *)
(* groups "(...)", "(?:...)" and "(?P<name>...)", the repetitions "*",     *)
(* "+", "?" and their lazy forms, "^", "$", ".", a bracketed class of      *)
(* bytes and ranges, a byte after a backslash, and plain bytes.  The       *)
(* patterns of the model use no other syntax.  A parse result is the node, *)
(* the position i after it, and the group names so far; bad when the       *)
(* expression is no valid one.                                             *)
(***************************************************************************)
\* The bytes lo..hi of a class range.
byteRange(lo, hi) == {c \in DOMAIN Ascii : Ord(lo) <= Ord(c) /\ Ord(c) <= Ord(hi)}

RECURSIVE classSet(_)
\* The bytes named between the brackets of a class (after any "^").
classSet(body) ==
    IF body = <<>> THEN {}
    ELSE IF Len(body) >= 3 /\ body[2] = "-"
    THEN byteRange(body[1], body[3]) \cup classSet(SubSeq(body, 4, Len(body)))
    ELSE {body[1]} \cup classSet(Tail(body))

\* A byte of [A-Za-z0-9_].
isNameByte(c) ==
    /\ c \in DOMAIN Ascii
    /\ \/ Ord("A") <= Ord(c) /\ Ord(c) <= Ord("Z")
       \/ Ord("a") <= Ord(c) /\ Ord(c) <= Ord("z")
       \/ Ord("0") <= Ord(c) /\ Ord(c) <= Ord("9")
       \/ c = "_"

RECURSIVE nameEnd(_, _)
\* The position after the name bytes that start at position j of pat.
nameEnd(pat, j) ==
    IF j <= Len(pat) /\ isNameByte(pat[j]) THEN nameEnd(pat, j + 1) ELSE j

\* The result of a parse that failed.
parseError == [bad |-> TRUE, node |-> [t |-> "cat", a |-> <<>>], i |-> 0, names |-> <<>>]

\* The result of parsing one atom.
atom(node, i, names) == [bad |-> FALSE, node |-> node, i |-> i, names |-> names]

\* The repetition operator at position j of buf: n is the number of bytes it
\* takes (0: there is none).
repeatOp(buf, j) ==
    IF j > Len(buf) \/ buf[j] \notin {"*", "+", "?"}
    THEN [n |-> 0, min |-> 1, many |-> FALSE, lazy |-> FALSE]
    ELSE [n |-> IF j < Len(buf) /\ buf[j + 1] = "?" THEN 2 ELSE 1,
          min |-> IF buf[j] = "+" THEN 1 ELSE 0,
          many |-> buf[j] # "?",
          lazy |-> j < Len(buf) /\ buf[j + 1] = "?"]

\* The class that opens at position i of buf, where buf[i] = "[": a "]"
\* right after the opening is a member, the next one closes the class.
parseClass(buf, i, names) ==
    LET neg == i < Len(buf) /\ buf[i + 1] = "^"
        first == IF neg THEN i + 2 ELSE i + 1
        close == IndexByte(SubSeq(buf, first + 1, Len(buf)), "]")
    IN  IF close = 0 THEN parseError
        ELSE atom([t |-> "set",
                   cls |-> [neg |-> neg, set |-> classSet(SubSeq(buf, first, first + close - 1))]],
                  first + close + 1, names)

RECURSIVE parseAlt(_, _, _)
RECURSIVE altRest(_, _, _)
RECURSIVE parseCat(_, _, _, _)
RECURSIVE catNext(_, _, _)
RECURSIVE catRepeat(_, _, _, _)
RECURSIVE parseAtom(_, _, _)
RECURSIVE parseGroup(_, _, _)
\* Alternatives from position i of buf, up to the end or an unmatched ")".
parseAlt(buf, i, names) == altRest(buf, parseCat(buf, i, names, <<>>), <<>>)

\* The alternatives after r, the one parsed last; before holds the earlier
\* ones.
altRest(buf, r, before) ==
    IF r.bad THEN r
    ELSE IF r.i <= Len(buf) /\ buf[r.i] = "|"
    THEN altRest(buf, parseCat(buf, r.i + 1, r.names, <<>>), Append(before, r.node))
    ELSE IF before = <<>> THEN r
    ELSE [r EXCEPT !.node = [t |-> "alt", a |-> Append(before, r.node)]]

\* A sequence from position i of buf, up to the end, a "|" or a ")"; acc
\* holds the nodes parsed so far.
parseCat(buf, i, names, acc) ==
    IF i > Len(buf) \/ buf[i] \in {"|", ")"}
    THEN atom([t |-> "cat", a |-> acc], i, names)
    ELSE catNext(buf, parseAtom(buf, i, names), acc)

\* The sequence goes on after atom at.
catNext(buf, at, acc) ==
    IF at.bad THEN at ELSE catRepeat(buf, at, acc, repeatOp(buf, at.i))

\* The sequence goes on after atom at and the repetition operator q that
\* follows it; a repetition of a repetition is an error.
catRepeat(buf, at, acc, q) ==
    IF q.n = 0 THEN parseCat(buf, at.i, at.names, Append(acc, at.node))
    ELSE IF at.i + q.n <= Len(buf) /\ buf[at.i + q.n] \in {"*", "+", "?"} THEN parseError
    ELSE parseCat(buf, at.i + q.n, at.names,
                  Append(acc, [t |-> "rep", e |-> at.node, min |-> q.min,
                               many |-> q.many, lazy |-> q.lazy]))

\* The atom at position i of buf; a repetition operator has nothing to
\* repeat here, and a backslash needs a byte after it.
parseAtom(buf, i, names) ==
    IF buf[i] \in {"*", "+", "?"} THEN parseError
    ELSE IF buf[i] = "^" THEN atom([t |-> "bol"], i + 1, names)
    ELSE IF buf[i] = "$" THEN atom([t |-> "eol"], i + 1, names)
    ELSE IF buf[i] = "." THEN atom([t |-> "set", cls |-> [neg |-> TRUE, set |-> {"\n"}]], i + 1, names)
    ELSE IF buf[i] = "\\"
    THEN IF i = Len(buf) THEN parseError
         ELSE atom([t |-> "set", cls |-> classOf(buf[i + 1])], i + 2, names)
    ELSE IF buf[i] = "[" THEN parseClass(buf, i, names)
    ELSE IF buf[i] = "(" THEN parseGroup(buf, i, names)
    ELSE atom([t |-> "set", cls |-> classOf(buf[i])], i + 1, names)

\* The group parsed up to r closes: a ")" must follow.  g is the number of
\* the group, 0 for one that does not capture.
groupEnd(buf, g, r) ==
    IF r.bad THEN r
    ELSE IF r.i > Len(buf) \/ buf[r.i] # ")" THEN parseError
    ELSE [r EXCEPT !.i = @ + 1,
                   !.node = IF g = 0 THEN r.node ELSE [t |-> "cap", g |-> g, e |-> r.node]]

\* The group that opens at position i of buf, where buf[i] = "(".  Groups
\* are numbered in the order of their opening parentheses.
parseGroup(buf, i, names) ==
    IF i < Len(buf) /\ buf[i + 1] = "?"
    THEN IF i + 2 <= Len(buf) /\ buf[i + 2] = ":"
         THEN groupEnd(buf, 0, parseAlt(buf, i + 3, names))
         ELSE IF /\ i + 3 <= Len(buf) /\ buf[i + 2] = "P" /\ buf[i + 3] = "<"
                 /\ nameEnd(buf, i + 4) > i + 4
                 /\ nameEnd(buf, i + 4) <= Len(buf) /\ buf[nameEnd(buf, i + 4)] = ">"
         THEN groupEnd(buf, Len(names),
                       parseAlt(buf, nameEnd(buf, i + 4) + 1,
                                Append(names, SubSeq(buf, i + 4, nameEnd(buf, i + 4) - 1))))
         ELSE parseError
    ELSE groupEnd(buf, Len(names), parseAlt(buf, i + 1, Append(names, <<>>)))

\* What Compile makes of parse result r: a ")" left over is an error.
compileEnd(buf, r) ==
    IF r.bad \/ r.i <= Len(buf)
    THEN [nil |-> FALSE, bad |-> TRUE, root |-> parseError.node, names |-> <<>>]
    ELSE [nil |-> FALSE, bad |-> FALSE, root |-> r.node, names |-> r.names]

\* regexp.Compile(buf): the compiled expression, bad when buf is no valid
\* expression (regexp.MustCompile panics).
Compile(buf) == compileEnd(buf, parseAlt(buf, 1, << <<>> >>))

(***************************************************************************)
(* compilePattern.                                                         *)
(***************************************************************************)
\* parameterRegexp matched at position i of pat, where pat[i] = "<": the
\* name is pat[i+1 .. colon-1]; colon is the position of ":" (0: no
\* expression given) and close the position of ">" (0: no match at i).
paramAt(pat, i) ==
    LET j == nameEnd(pat, i + 1)
        gt == IF j <= Len(pat) /\ pat[j] = ":"
              THEN IndexByte(SubSeq(pat, j + 1, Len(pat)), ">")
              ELSE 0
    IN  IF j <= Len(pat) /\ pat[j] = ">" THEN [nameEnd |-> j, colon |-> 0, close |-> j]
        ELSE IF gt > 0 THEN [nameEnd |-> j, colon |-> j, close |-> j + gt]
        ELSE [nameEnd |-> j, colon |-> 0, close |-> 0]

RECURSIVE findParam(_, _)
\* parameterRegexp.FindStringSubmatchIndex(pat), searching from position i:
\* the leftmost placeholder, start = 0 when there is none.
findParam(pat, i) ==
    IF i > Len(pat) THEN [start |-> 0, nameEnd |-> 0, colon |-> 0, close |-> 0]
    ELSE IF pat[i] = "<" /\ paramAt(pat, i).close > 0
    THEN [start |-> i] @@ paramAt(pat, i)
    ELSE findParam(pat, i + 1)

\* The opening of the group compilePattern writes for a placeholder: one
\* that does not capture when the placeholder has no name.
groupOpen(name) ==
    IF name = <<>> THEN <<"(", "?", ":">>
    ELSE <<"(", "?", "P", "<">> \o name \o <<">">>

\* An expression matching any bytes at all.
defaultExprAny(sep) == <<".", "+">>

\* The expression compilePattern writes for a placeholder without one:
\* [^sep]+.
defaultExpr(sep) == <<"[", "^", sep, "]", "+">>

RECURSIVE compileLoop(_, _, _, _)
RECURSIVE compileParam(_, _, _, _, _)
\* One round of the loop of compilePattern over what is left of pat, a being
\* the placeholder found in it by parameterRegexp; buf is the expression
\* written so far.
compileParam(pat, sep, buf, hasParam, a) ==
    IF a.start = 0
    THEN [hasParam |-> hasParam, buf |-> buf \o QuoteMeta(pat)]
    ELSE compileLoop(SubSeq(pat, a.close + 1, Len(pat)), sep,
                     buf \o QuoteMeta(SubSeq(pat, 1, a.start - 1))
                         \o groupOpen(SubSeq(pat, a.start + 1, a.nameEnd - 1))
                         \o (IF a.colon > 0
                             THEN SubSeq(pat, a.colon + 1, a.close - 1)
                             ELSE defaultExpr(sep))
                         \o <<")">>,
                     TRUE)

\* The loop of compilePattern over what is left of pat.
compileLoop(pat, sep, buf, hasParam) ==
    compileParam(pat, sep, buf, hasParam, findParam(pat, 1))

\* What compilePattern returns once its loop has produced c: nil for a
\* pattern without placeholder, else the compiled expression; bad when
\* regexp.MustCompile panics.
compiled(c, addSlash) ==
    IF ~c.hasParam
    THEN [nil |-> TRUE, bad |-> FALSE, root |-> parseError.node, names |-> <<>>]
    ELSE Compile(c.buf \o (IF addSlash THEN <<"?">> ELSE <<>>) \o <<"$">>)

\* compilePattern(pat, addSlash, sep).
compilePattern(pat, addSlash, sep) == compiled(compileLoop(pat, sep, <<"^">>, FALSE), addSlash)

(***************************************************************************)
(* Router: routes and lookup.                                              *)
(***************************************************************************)
\* The Handler registered on route id for method m: every registration
\* brings a function of its own.
userHandler(id, m) == [kind |-> "user", route |-> id, method |-> m]

RECURSIVE scanRoutesLast(_, _, _, _)
\* The loop of findRoute, keeping the last matching route instead of
\* returning at the first.
scanRoutesLast(rts, objs, path, i) ==
    IF i > Len(rts) THEN [route |-> 0, names |-> <<>>, values |-> <<>>]
    ELSE LET later == scanRoutesLast(rts, objs, path, i + 1)
             values == FindStringSubmatch(objs[rts[i]].cpat, path)
         IN  IF later.route # 0 THEN later
             ELSE IF values # <<>>
             THEN [route |-> rts[i], names |-> SubexpNames(objs[rts[i]].cpat), values |-> values]
             ELSE later

RECURSIVE scanRoutes(_, _, _, _)
\* The loop of findRoute over the regex routes rts[i..]: the first one whose
\* expression matches path, with its names and values; route 0 (nil) if none.
scanRoutes(rts, objs, path, i) ==
    IF i > Len(rts) THEN [route |-> 0, names |-> <<>>, values |-> <<>>]
    ELSE LET values == FindStringSubmatch(objs[rts[i]].cpat, path)
         IN  IF values # <<>>
             THEN [route |-> rts[i], names |-> SubexpNames(objs[rts[i]].cpat), values |-> values]
             ELSE scanRoutes(rts, objs, path, i + 1)

\* findRoute with the regex routes tried before the literal map.
findRouteRegexFirst(sm, rts, objs, path) ==
    IF scanRoutes(rts, objs, path, 1).route # 0 THEN scanRoutes(rts, objs, path, 1)
    ELSE IF path \in DOMAIN sm
    THEN [route |-> sm[path], names |-> <<>>, values |-> <<>>]
    ELSE [route |-> 0, names |-> <<>>, values |-> <<>>]

\* Router.findRoute(path) on the router with literal map sm, regex routes rts
\* and route objects objs.
findRouteIn(sm, rts, objs, path) ==
    IF path \in DOMAIN sm
    THEN [route |-> sm[path], names |-> <<>>, values |-> <<>>]
    ELSE scanRoutes(rts, objs, path, 1)

\* Router.findRoute(path) on the router as it is.
findRoute(path) == findRouteIn(simpleMatch, routes, routeObjs, path)

\* methodHandler without the step from "HEAD" to the "GET" handler.
methodHandlerNoHead(handlers, method) ==
    IF method \in DOMAIN handlers THEN handlers[method]
    ELSE IF "*" \in DOMAIN handlers THEN handlers["*"]
    ELSE [kind |-> "nil"]

\* The handler findHandler picks for method on a matched route: the one for
\* the method, for "GET" if the method is "HEAD", for "*"; nil if none.
methodHandler(handlers, method) ==
    IF method \in DOMAIN handlers THEN handlers[method]
    ELSE IF method = "HEAD" /\ "GET" \in DOMAIN handlers THEN handlers["GET"]
    ELSE IF "*" \in DOMAIN handlers THEN handlers["*"]
    ELSE [kind |-> "nil"]

\* The closure findHandler returns when no route matches, with another
\* status.
notFoundAsNotAllowed == [kind |-> "error", status |-> 405]

\* The closure findHandler returns when no route matches: errfn with 404.
notFound == [kind |-> "error", status |-> 404]

\* The closure findHandler returns when the route has no handler for the
\* method, with another status.
methodNotAllowedAsNotFound == [kind |-> "error", status |-> 404]

\* The closure findHandler returns when the route has no handler for the
\* method: errfn with 405.
methodNotAllowed == [kind |-> "error", status |-> 405]

\* Router.findHandler(path, method): the handler to run, with the names and
\* values of the match.  The handlers the router makes itself are the 404
\* and 405 closures and addSlash; "panic" is the index out of range of
\* path[len(path)-1] on an empty path.
findHandler(path, method) ==
    LET f == findRoute(path)
        none == [names |-> <<>>, values |-> <<>>]
    IN  IF f.route = 0 THEN [handler |-> notFound] @@ none
        ELSE IF routeObjs[f.route].addSlash /\ path = <<>>
        THEN [handler |-> [kind |-> "panic"]] @@ none
        ELSE IF routeObjs[f.route].addSlash /\ path[Len(path)] # "/"
        THEN [handler |-> [kind |-> "addSlash"]] @@ none
        ELSE LET handler == methodHandler(routeObjs[f.route].handlers, method)
             IN  IF handler.kind = "nil"
                 THEN [handler |-> methodNotAllowed] @@ none
                 ELSE [handler |-> handler, names |-> f.names, values |-> f.values]

(***************************************************************************)
(* percentDecode.                                                          *)
(***************************************************************************)
notHex == 127

\* dehex without the case of the upper-case digits.
dehexLowerOnly(b) ==
    IF Ord("0") <= Ord(b) /\ Ord(b) <= Ord("9") THEN Ord(b) - Ord("0")
    ELSE IF Ord("a") <= Ord(b) /\ Ord(b) <= Ord("f") THEN Ord(b) - Ord("a") + 10
    ELSE notHex

\* dehex(b): the value of hex digit b, notHex for any other byte.
dehex(b) ==
    IF Ord("0") <= Ord(b) /\ Ord(b) <= Ord("9") THEN Ord(b) - Ord("0")
    ELSE IF Ord("a") <= Ord(b) /\ Ord(b) <= Ord("f") THEN Ord(b) - Ord("a") + 10
    ELSE IF Ord("A") <= Ord(b) /\ Ord(b) <= Ord("F") THEN Ord(b) - Ord("A") + 10
    ELSE notHex

RECURSIVE decodeLoop(_, _, _)
\* The second loop of percentDecode, at position i of s with p decoded so far.
decodeLoop(s, i, p) ==
    IF i > Len(s) THEN [err |-> FALSE, s |-> p]
    ELSE IF s[i] # "%" THEN decodeLoop(s, i + 1, Append(p, s[i]))
    ELSE IF i + 2 > Len(s) THEN [err |-> TRUE, s |-> <<>>]
    ELSE LET a == dehex(s[i + 1])
             b == dehex(s[i + 2])
         IN  IF a = notHex \/ b = notHex THEN [err |-> TRUE, s |-> <<>>]
             ELSE decodeLoop(s, i + 3, Append(p, Chr((a * 16) + b)))

\* percentDecode(s): s with every %XY replaced by the byte it names, or
\* errBadRequest.
percentDecode(s) ==
    IF \A i \in 1..Len(s) : s[i] # "%" THEN [err |-> FALSE, s |-> s]
    ELSE decodeLoop(s, 1, <<>>)

(***************************************************************************)
(* Requests and responses.                                                 *)
(***************************************************************************)
\* The URL of a request with request target uri, as url.Parse gives it to the
\* server and to TestRouter: Path is the unescaped text before the first "?"
\* and RawQuery the text after it; a target whose escapes do not parse leaves
\* both empty (TestRouter falls back to url.URL{Opaque: ...}).
parseURL(uri) ==
    LET i == IndexByte(uri, "?")
        p == IF i > 0 THEN SubSeq(uri, 1, i - 1) ELSE uri
        q == IF i > 0 THEN SubSeq(uri, i + 1, Len(uri)) ELSE <<>>
        d == decodeLoop(p, 1, <<>>)
    IN  IF d.err THEN [Path |-> <<>>, RawQuery |-> <<>>]
        ELSE [Path |-> d.s, RawQuery |-> q]

\* The http.Request with request target uri and method m.
Request(uri, m) == [RequestURI |-> uri, Method |-> m, URL |-> parseURL(uri)]

\* context.Background(): no value under any key.
background == <<>>

RECURSIVE withParamsAll(_, _, _, _)
\* The loop of withParams without the test for the empty name.
withParamsAll(ctx, names, values, i) ==
    IF i > Len(names) THEN ctx
    ELSE withParamsAll((names[i] :> values[i]) @@ ctx, names, values, i + 1)

RECURSIVE withParamsFrom(_, _, _, _)
\* The loop of withParams from index i.
withParamsFrom(ctx, names, values, i) ==
    IF i > Len(names) THEN ctx
    ELSE IF names[i] = <<>> THEN withParamsFrom(ctx, names, values, i + 1)
    ELSE withParamsFrom((names[i] :> values[i]) @@ ctx, names, values, i + 1)

\* withParams(ctx, names, values): ctx with values[i] under every non-empty
\* names[i].
withParams(ctx, names, values) == withParamsFrom(ctx, names, values, 1)

\* Param(ctx, key).
Param(ctx, key) ==
    IF key \in DOMAIN ctx THEN [value |-> ctx[key], ok |-> TRUE]
    ELSE [value |-> <<>>, ok |-> FALSE]

\* What a Serve call did: ran a registered handler with a context, called
\* the error function with a status, wrote a redirect to url, or panicked.
ranHandler(h, ctx) ==
    [kind |-> "handler", status |-> 200, handler |-> h, ctx |-> ctx, url |-> <<>>]
calledErrfn(status) ==
    [kind |-> "error", status |-> status, handler |-> [kind |-> "nil"],
     ctx |-> background, url |-> <<>>]
redirected(url) ==
    [kind |-> "redirect", status |-> 301, handler |-> [kind |-> "nil"],
     ctx |-> background, url |-> url]
panicked ==
    [kind |-> "panic", status |-> 0, handler |-> [kind |-> "nil"],
     ctx |-> background, url |-> <<>>]

\* addSlash: the redirect to the request URL with a trailing slash.
addSlash(r) ==
    redirected(r.URL.Path \o <<"/">>
               \o (IF Len(r.URL.RawQuery) > 0 THEN <<"?">> \o r.URL.RawQuery ELSE <<>>))

\* The call handler(ctx, w, r) that ends Serve.
invoke(handler, ctx, r) ==
    CASE handler.kind = "error" -> calledErrfn(handler.status)
      [] handler.kind = "addSlash" -> addSlash(r)
      [] handler.kind = "panic" -> panicked
      [] OTHER -> ranHandler(handler, ctx)

(***************************************************************************)
(* Router.Serve.                                                           *)
(***************************************************************************)
\* The cp Serve computes for path p.
normalize(p) ==
    IF p # <<>> /\ p # <<"/">>
    THEN pathClean(p) \o (IF p[Len(p)] = "/" THEN <<"/">> ELSE <<>>)
    ELSE <<"/">>

RECURSIVE decodeValuesSkipBad(_, _, _)
\* The loop of Serve, leaving a value that does not decode as it is instead of
\* stopping with an error.
decodeValuesSkipBad(names, values, i) ==
    IF i > Len(values) THEN [err |-> FALSE, values |-> values]
    ELSE IF names[i] = <<>> THEN decodeValuesSkipBad(names, values, i + 1)
    ELSE LET d == percentDecode(values[i])
         IN  IF d.err THEN decodeValuesSkipBad(names, values, i + 1)
             ELSE decodeValuesSkipBad(names, [values EXCEPT ![i] = d.s], i + 1)

RECURSIVE decodeValues(_, _, _)
\* The loop of Serve that replaces each named value by its decoded form,
\* from index i: err at the first value that does not decode.
decodeValues(names, values, i) ==
    IF i > Len(values) THEN [err |-> FALSE, values |-> values]
    ELSE IF names[i] = <<>> THEN decodeValues(names, values, i + 1)
    ELSE LET d == percentDecode(values[i])
         IN  IF d.err THEN [err |-> TRUE, values |-> values]
             ELSE decodeValues(names, [values EXCEPT ![i] = d.s], i + 1)

\* Router.Serve(ctx, w, r) looking the route up with the decoded path of the
\* URL where Serve uses the path of the request target.
serveOnDecodedPath(ctx, r) ==
    IF useURLPath
    THEN LET h == findHandler(r.URL.Path, r.Method)
         IN  invoke(h.handler, withParams(ctx, h.names, h.values), r)
    ELSE LET i == IndexByte(r.RequestURI, "?")
             q == IF i > 0 THEN SubSeq(r.RequestURI, i, Len(r.RequestURI)) ELSE <<>>
             p == IF i > 0 THEN SubSeq(r.RequestURI, 1, i - 1) ELSE r.RequestURI
             cp == normalize(p)
         IN  IF p # cp THEN redirected(cp \o q)
             ELSE LET h == findHandler(r.URL.Path, r.Method)
                      d == decodeValues(h.names, h.values, 1)
                  IN  IF d.err THEN calledErrfn(400)
                      ELSE invoke(h.handler, withParams(ctx, h.names, d.values), r)

\* Router.Serve(ctx, w, r) decoding the captured values in URL.Path mode as
\* Serve does in RequestURI mode.
serveDecodingURLPath(ctx, r) ==
    IF useURLPath
    THEN LET h == findHandler(r.URL.Path, r.Method)
             d == decodeValues(h.names, h.values, 1)
         IN  IF d.err THEN calledErrfn(400)
             ELSE invoke(h.handler, withParams(ctx, h.names, d.values), r)
    ELSE LET i == IndexByte(r.RequestURI, "?")
             q == IF i > 0 THEN SubSeq(r.RequestURI, i, Len(r.RequestURI)) ELSE <<>>
             p == IF i > 0 THEN SubSeq(r.RequestURI, 1, i - 1) ELSE r.RequestURI
             cp == normalize(p)
         IN  IF p # cp THEN redirected(cp \o q)
             ELSE LET h == findHandler(p, r.Method)
                      d == decodeValues(h.names, h.values, 1)
                  IN  IF d.err THEN calledErrfn(400)
                      ELSE invoke(h.handler, withParams(ctx, h.names, d.values), r)

\* Router.Serve(ctx, w, r) on the router as it is.
serve(ctx, r) ==
    IF useURLPath
    THEN LET h == findHandler(r.URL.Path, r.Method)
         IN  invoke(h.handler, withParams(ctx, h.names, h.values), r)
    ELSE LET i == IndexByte(r.RequestURI, "?")
             q == IF i > 0 THEN SubSeq(r.RequestURI, i, Len(r.RequestURI)) ELSE <<>>
             p == IF i > 0 THEN SubSeq(r.RequestURI, 1, i - 1) ELSE r.RequestURI
             cp == normalize(p)
         IN  IF p # cp THEN redirected(cp \o q)
             ELSE LET h == findHandler(p, r.Method)
                      d == decodeValues(h.names, h.values, 1)
                  IN  IF d.err THEN calledErrfn(400)
                      ELSE invoke(h.handler, withParams(ctx, h.names, d.values), r)

(***************************************************************************)
(* The calls on a Router.  call records the last call and its outcome      *)
(* until the call returns.                                                 *)
(***************************************************************************)
idle == [op |-> "idle"]

\* The check of Add, looking at the literal map alone.
collidesLiteralOnly(pat) == pat \in DOMAIN simpleMatch

\* The check of Add, looking at the regex routes alone.
collidesRegexOnly(pat) == scanRoutes(routes, routeObjs, pat, 1).route # 0

\* The check Add makes before it inserts literal pattern pat: some route is
\* found for pat.
collides(pat) == findRoute(pat).route # 0

\* The test of Add on its pattern, for the empty pattern alone.
invalidPatternEmptyOnly(pat) == pat = <<>>

\* The test Add starts with: the pattern is empty or does not begin with "/".
invalidPattern(pat) == pat = <<>> \/ pat[1] # "/"

\* Router.Add(pat) with one more check: a pattern with placeholders whose
\* expression matches a key of the literal map panics.
AddRegexChecked(pat) ==
    /\ call = idle
    /\ Len(routeObjs) < MaxRoutes
    /\ UNCHANGED <<useURLPath, hostSimpleMatch, hostRoutes, serving, locals>>
    /\ UNCHANGED nonRouterVars
    /\ LET id == Len(routeObjs) + 1
           slash == pat # <<"/">> /\ pat[Len(pat)] = "/"
           route(cpat) == [pat |-> pat, addSlash |-> slash, handlers |-> <<>>,
                           cpat |-> [nil |-> cpat.nil, root |-> cpat.root,
                                     names |-> cpat.names]]
           short == SubSeq(pat, 1, Len(pat) - 1)
           withPat == (pat :> id) @@ simpleMatch
           panic == /\ call' = [op |-> "Add", pat |-> pat, panicked |-> TRUE, route |-> 0]
                    /\ UNCHANGED <<simpleMatch, routes, routeObjs>>
           done == call' = [op |-> "Add", pat |-> pat, panicked |-> FALSE, route |-> id]
       IN  IF invalidPattern(pat) THEN panic
           ELSE \E cpat \in {compilePattern(pat, slash, "/")} :
                IF cpat.bad THEN panic
                ELSE IF ~cpat.nil
                THEN IF \E k \in DOMAIN simpleMatch : FindStringSubmatch(cpat, k) # <<>>
                     THEN panic
                     ELSE /\ routes' = Append(routes, id)
                          /\ routeObjs' = Append(routeObjs, route(cpat))
                          /\ UNCHANGED simpleMatch
                          /\ done
                ELSE IF collides(pat) THEN panic
                ELSE /\ simpleMatch' =
                           IF slash /\ findRouteIn(withPat, routes, routeObjs, short).route = 0
                           THEN (short :> id) @@ withPat
                           ELSE withPat
                     /\ routeObjs' = Append(routeObjs, route(cpat))
                     /\ UNCHANGED routes
                     /\ done

\* Router.Add(pat) making the pattern without its final "/" a key of the new
\* route whether or not a route is found for it.
AddAliasAlways(pat) ==
    /\ call = idle
    /\ Len(routeObjs) < MaxRoutes
    /\ UNCHANGED <<useURLPath, hostSimpleMatch, hostRoutes, serving, locals>>
    /\ UNCHANGED nonRouterVars
    /\ LET id == Len(routeObjs) + 1
           slash == pat # <<"/">> /\ pat[Len(pat)] = "/"
           route(cpat) == [pat |-> pat, addSlash |-> slash, handlers |-> <<>>,
                           cpat |-> [nil |-> cpat.nil, root |-> cpat.root,
                                     names |-> cpat.names]]
           short == SubSeq(pat, 1, Len(pat) - 1)
           withPat == (pat :> id) @@ simpleMatch
           panic == /\ call' = [op |-> "Add", pat |-> pat, panicked |-> TRUE, route |-> 0]
                    /\ UNCHANGED <<simpleMatch, routes, routeObjs>>
           done == call' = [op |-> "Add", pat |-> pat, panicked |-> FALSE, route |-> id]
       IN  IF invalidPattern(pat) THEN panic
           ELSE \E cpat \in {compilePattern(pat, slash, "/")} :
                IF cpat.bad THEN panic
                ELSE IF ~cpat.nil
                THEN /\ routes' = Append(routes, id)
                     /\ routeObjs' = Append(routeObjs, route(cpat))
                     /\ UNCHANGED simpleMatch
                     /\ done
                ELSE IF collides(pat) THEN panic
                ELSE /\ simpleMatch' =
                           IF slash
                           THEN (short :> id) @@ withPat
                           ELSE withPat
                     /\ routeObjs' = Append(routeObjs, route(cpat))
                     /\ UNCHANGED routes
                     /\ done

\* Router.Add(pat); the returned route is call.route, and a panic leaves
\* call.panicked.
Add(pat) ==
    /\ call = idle
    /\ Len(routeObjs) < MaxRoutes
    /\ UNCHANGED <<useURLPath, hostSimpleMatch, hostRoutes, serving, locals>>
    /\ UNCHANGED nonRouterVars
    /\ LET id == Len(routeObjs) + 1
           slash == pat # <<"/">> /\ pat[Len(pat)] = "/"
           route(cpat) == [pat |-> pat, addSlash |-> slash, handlers |-> <<>>,
                           cpat |-> [nil |-> cpat.nil, root |-> cpat.root,
                                     names |-> cpat.names]]
           short == SubSeq(pat, 1, Len(pat) - 1)
           withPat == (pat :> id) @@ simpleMatch
           panic == /\ call' = [op |-> "Add", pat |-> pat, panicked |-> TRUE, route |-> 0]
                    /\ UNCHANGED <<simpleMatch, routes, routeObjs>>
           done == call' = [op |-> "Add", pat |-> pat, panicked |-> FALSE, route |-> id]
       IN  IF invalidPattern(pat) THEN panic
           ELSE \E cpat \in {compilePattern(pat, slash, "/")} :
                IF cpat.bad THEN panic
                ELSE IF ~cpat.nil
                THEN /\ routes' = Append(routes, id)
                     /\ routeObjs' = Append(routeObjs, route(cpat))
                     /\ UNCHANGED simpleMatch
                     /\ done
                ELSE IF collides(pat) THEN panic
                ELSE /\ simpleMatch' =
                           IF slash /\ findRouteIn(withPat, routes, routeObjs, short).route = 0
                           THEN (short :> id) @@ withPat
                           ELSE withPat
                     /\ routeObjs' = Append(routeObjs, route(cpat))
                     /\ UNCHANGED routes
                     /\ done

\* Route.Method(method, handler) on route id.
Method(id, method) ==
    /\ call = idle
    /\ routeObjs' = [routeObjs EXCEPT ![id].handlers = (method :> userHandler(id, method)) @@ @]
    /\ call' = [op |-> "Method", route |-> id, method |-> method]
    /\ UNCHANGED <<simpleMatch, routes, useURLPath, hostSimpleMatch, hostRoutes, serving, locals>>
    /\ UNCHANGED nonRouterVars

\* Router.UseURLPath().
UseURLPath ==
    /\ call = idle
    /\ ~useURLPath
    /\ useURLPath' = TRUE
    /\ call' = [op |-> "UseURLPath"]
    /\ UNCHANGED <<simpleMatch, routes, routeObjs, hostSimpleMatch, hostRoutes, serving, locals>>
    /\ UNCHANGED nonRouterVars

\* Router.ServeHTTP(w, r): Serve with a background context.
Serve(uri, method) ==
    /\ call = idle
    /\ call' = [op |-> "Serve", r |-> Request(uri, method),
                resp |-> serve(background, Request(uri, method))]
    /\ UNCHANGED <<simpleMatch, routes, routeObjs, useURLPath, hostSimpleMatch, hostRoutes,
                   serving, locals>>
    /\ UNCHANGED nonRouterVars

\* The first steps of Router.Serve in RequestURI mode, for a request target
\* with path p and no query: the computation of cp.
Normalize(p) ==
    /\ call = idle
    /\ call' = [op |-> "normalize", p |-> p, cp |-> normalize(p)]
    /\ UNCHANGED <<simpleMatch, routes, routeObjs, useURLPath, hostSimpleMatch, hostRoutes,
                   serving, locals>>
    /\ UNCHANGED nonRouterVars

\* A call of percentDecode(s).
PercentDecode(s) ==
    /\ call = idle
    /\ call' = [op |-> "percentDecode", s |-> s, res |-> percentDecode(s)]
    /\ UNCHANGED <<simpleMatch, routes, routeObjs, useURLPath, hostSimpleMatch, hostRoutes,
                   serving, locals>>
    /\ UNCHANGED nonRouterVars

\* The call returns to its caller.
Return ==
    /\ call # idle
    /\ call' = idle
    /\ UNCHANGED <<simpleMatch, routes, routeObjs, useURLPath, hostSimpleMatch, hostRoutes,
                   serving, locals>>
    /\ UNCHANGED nonRouterVars

(***************************************************************************)
(* Router.Serve, step by step, for calls made by several goroutines at     *)
(* once.  serving[g] is the position of goroutine g in Serve (none: not    *)
(* called yet; lookup: at line 284; decode: in the loop of lines 307-317;  *)
(* invoke: at line 320; done: returned) with its request and, once done,   *)
(* what the call did.  locals holds the variables handler, names and       *)
(* values declared at lines 280-283 and the loop index i.                  *)
(***************************************************************************)
Goroutines == 1..MaxServing

\* One frame for every call.
frameShared(g) == 1

\* The frame of the Serve call of goroutine g: every call has its own local
\* variables, and FindStringSubmatch gives every call a slice of its own.
frame(g) == g

\* The local variables of Serve as declared: nil, and the index the loop
\* of line 307 starts with.
noLocals == [handler |-> [kind |-> "nil"], names |-> <<>>, values |-> <<>>, i |-> 1]

\* A goroutine that has not called Serve.
notCalled == [pc |-> "none", r |-> Request(<<>>, "GET"), resp |-> calledErrfn(0)]

\* Whether Serve has been called by some goroutine.
begun == \E g \in Goroutines : serving[g].pc # "none"

\* Goroutine g calls ServeHTTP with a request.
ServeBegin(g, uri, method) ==
    /\ call = idle
    /\ serving[g].pc = "none"
    /\ serving' = [serving EXCEPT ![g] = [@ EXCEPT !.pc = "lookup", !.r = Request(uri, method)]]
    /\ locals' = [locals EXCEPT ![frame(g)] = noLocals]
    /\ UNCHANGED <<simpleMatch, routes, routeObjs, useURLPath, hostSimpleMatch, hostRoutes, call>>
    /\ UNCHANGED nonRouterVars

\* The locals of a call after findHandler returned h.
found(h) == [handler |-> h.handler, names |-> h.names, values |-> h.values, i |-> 1]

\* Goroutine g goes from line 284 to the loop of line 307 (RequestURI mode),
\* to line 320 (URL.Path mode), or returns with a redirect.
ServeLookup(g) ==
    /\ serving[g].pc = "lookup"
    /\ IF useURLPath
       THEN /\ locals' = [locals EXCEPT ![frame(g)] =
                              found(findHandler(serving[g].r.URL.Path, serving[g].r.Method))]
            /\ serving' = [serving EXCEPT ![g].pc = "invoke"]
       ELSE LET uri == serving[g].r.RequestURI
                i == IndexByte(uri, "?")
                q == IF i > 0 THEN SubSeq(uri, i, Len(uri)) ELSE <<>>
                p == IF i > 0 THEN SubSeq(uri, 1, i - 1) ELSE uri
            IN  IF p # normalize(p)
                THEN /\ serving' = [serving EXCEPT ![g].pc = "done",
                                                   ![g].resp = redirected(normalize(p) \o q)]
                     /\ UNCHANGED locals
                ELSE /\ locals' = [locals EXCEPT ![frame(g)] =
                                       found(findHandler(p, serving[g].r.Method))]
                     /\ serving' = [serving EXCEPT ![g].pc = "decode"]
    /\ UNCHANGED <<simpleMatch, routes, routeObjs, useURLPath, hostSimpleMatch, hostRoutes, call>>
    /\ UNCHANGED nonRouterVars

\* Goroutine g makes one round of the loop of lines 307-317: it leaves the
\* loop, skips a value without name, stores a decoded value in place, or
\* returns with 400.
ServeDecode(g) ==
    /\ serving[g].pc = "decode"
    /\ \E l \in {locals[frame(g)]} :
         IF l.i > Len(l.values)
         THEN /\ serving' = [serving EXCEPT ![g].pc = "invoke"]
              /\ UNCHANGED locals
         ELSE IF l.names[l.i] = <<>>
         THEN /\ locals' = [locals EXCEPT ![frame(g)].i = @ + 1]
              /\ UNCHANGED serving
         ELSE IF percentDecode(l.values[l.i]).err
         THEN /\ serving' = [serving EXCEPT ![g].pc = "done", ![g].resp = calledErrfn(400)]
              /\ UNCHANGED locals
         ELSE /\ locals' = [locals EXCEPT ![frame(g)].values[l.i] = percentDecode(l.values[l.i]).s,
                                          ![frame(g)].i = @ + 1]
              /\ UNCHANGED serving
    /\ UNCHANGED <<simpleMatch, routes, routeObjs, useURLPath, hostSimpleMatch, hostRoutes, call>>
    /\ UNCHANGED nonRouterVars

\* Goroutine g runs line 320 and returns.
ServeInvoke(g) ==
    /\ serving[g].pc = "invoke"
    /\ \E l \in {locals[frame(g)]} :
         serving' = [serving EXCEPT
                        ![g].pc = "done",
                        ![g].resp = invoke(l.handler, withParams(background, l.names, l.values),
                                           serving[g].r)]
    /\ UNCHANGED <<simpleMatch, routes, routeObjs, useURLPath, hostSimpleMatch, hostRoutes, call,
                   locals>>
    /\ UNCHANGED nonRouterVars

(***************************************************************************)
(* HostRouter.                                                             *)
(***************************************************************************)
\* The handler given to the n-th HostRouter.Add.
hostHandler(n) == [kind |-> "user", route |-> n, method |-> "host"]

RECURSIVE scanHostRoutes(_, _, _)
\* The loop of HostRouter.findRoute over rts[i..]; route is the hostRoute
\* found, or nil.
scanHostRoutes(rts, host, i) ==
    IF i > Len(rts) THEN [nil |-> TRUE, route |-> <<>>, names |-> <<>>, values |-> <<>>]
    ELSE LET values == FindStringSubmatch(rts[i].cpat, host)
         IN  IF values # <<>>
             THEN [nil |-> FALSE, route |-> rts[i], names |-> SubexpNames(rts[i].cpat),
                   values |-> values]
             ELSE scanHostRoutes(rts, host, i + 1)

\* HostRouter.findRoute(host).
hostFindRoute(host) ==
    IF host \in DOMAIN hostSimpleMatch
    THEN [nil |-> FALSE, route |-> hostSimpleMatch[host], names |-> <<>>, values |-> <<>>]
    ELSE scanHostRoutes(hostRoutes, host, 1)

\* The number of routes of the host router.
hostRouteCount == Len(hostRoutes) + Cardinality(DOMAIN hostSimpleMatch)

\* The check HostRouter.Add makes before it inserts literal pattern pat.
hostCollides(pat) == ~hostFindRoute(pat).nil

\* HostRouter.Add(pat, handler) putting the literal pattern into the map
\* before it looks for a route that matches it.
HostAddInsertFirst(pat) ==
    /\ call = idle
    /\ hostRouteCount < MaxRoutes
    /\ UNCHANGED <<simpleMatch, routes, routeObjs, useURLPath, serving, locals>>
    /\ UNCHANGED nonRouterVars
    /\ LET route(cpat) == [pat |-> pat, handler |-> hostHandler(hostRouteCount + 1),
                           cpat |-> [nil |-> cpat.nil, root |-> cpat.root,
                                     names |-> cpat.names]]
           panic == /\ call' = [op |-> "HostAdd", pat |-> pat, panicked |-> TRUE]
                    /\ UNCHANGED <<hostSimpleMatch, hostRoutes>>
           done == call' = [op |-> "HostAdd", pat |-> pat, panicked |-> FALSE]
       IN  \E cpat \in {compilePattern(pat, FALSE, ".")} :
               IF cpat.bad THEN panic
               ELSE IF ~cpat.nil
               THEN /\ hostRoutes' = Append(hostRoutes, route(cpat))
                    /\ UNCHANGED hostSimpleMatch
                    /\ done
               ELSE IF hostCollides(pat)
               THEN /\ call' = [op |-> "HostAdd", pat |-> pat, panicked |-> TRUE]
                    /\ hostSimpleMatch' = (pat :> route(cpat)) @@ hostSimpleMatch
                    /\ UNCHANGED hostRoutes
               ELSE /\ hostSimpleMatch' = (pat :> route(cpat)) @@ hostSimpleMatch
                    /\ UNCHANGED hostRoutes
                    /\ done

\* HostRouter.Add(pat, handler).
HostAdd(pat) ==
    /\ call = idle
    /\ hostRouteCount < MaxRoutes
    /\ UNCHANGED <<simpleMatch, routes, routeObjs, useURLPath, serving, locals>>
    /\ UNCHANGED nonRouterVars
    /\ LET route(cpat) == [pat |-> pat, handler |-> hostHandler(hostRouteCount + 1),
                           cpat |-> [nil |-> cpat.nil, root |-> cpat.root,
                                     names |-> cpat.names]]
           panic == /\ call' = [op |-> "HostAdd", pat |-> pat, panicked |-> TRUE]
                    /\ UNCHANGED <<hostSimpleMatch, hostRoutes>>
           done == call' = [op |-> "HostAdd", pat |-> pat, panicked |-> FALSE]
       IN  \E cpat \in {compilePattern(pat, FALSE, ".")} :
               IF cpat.bad THEN panic
               ELSE IF ~cpat.nil
               THEN /\ hostRoutes' = Append(hostRoutes, route(cpat))
                    /\ UNCHANGED hostSimpleMatch
                    /\ done
               ELSE IF hostCollides(pat) THEN panic
               ELSE /\ hostSimpleMatch' = (pat :> route(cpat)) @@ hostSimpleMatch
                    /\ UNCHANGED hostRoutes
                    /\ done

\* net.SplitHostPort(s): the port starts after the last ":"; a host that
\* begins with "[" must end with "]" just before that ":", and is returned
\* without the brackets; any other host must hold no ":"; no further "[" or
\* "]" may appear.
SplitHostPort(s) ==
    LET i == LastIndexByte(s, ":")
        end == IndexByte(s, "]")
        bracketed == s[1] = "["
        host == IF bracketed THEN SubSeq(s, 2, end - 1) ELSE SubSeq(s, 1, i - 1)
        fromJ == IF bracketed THEN SubSeq(s, 2, Len(s)) ELSE s
        fromK == IF bracketed THEN SubSeq(s, end + 1, Len(s)) ELSE s
        failed == [err |-> TRUE, host |-> <<>>]
    IN  IF i = 0 THEN failed
        ELSE IF bracketed /\ (end = 0 \/ end + 1 # i) THEN failed
        ELSE IF ~bracketed /\ IndexByte(host, ":") > 0 THEN failed
        ELSE IF IndexByte(fromJ, "[") > 0 \/ IndexByte(fromK, "]") > 0 THEN failed
        ELSE [err |-> FALSE, host |-> host]

\* StripPort(s): the host of s when SplitHostPort succeeds, else s.
StripPort(s) == IF SplitHostPort(s).err THEN s ELSE SplitHostPort(s).host

\* strings.ToLower.
ToLower(s) ==
    [i \in 1..Len(s) |->
        IF s[i] \in DOMAIN Ascii /\ Ord("A") <= Ord(s[i]) /\ Ord(s[i]) <= Ord("Z")
        THEN Chr(Ord(s[i]) + 32)
        ELSE s[i]]

\* HostRouter.Serve(ctx, w, r) for a request with Host header host.
hostServe(ctx, host) ==
    LET f == hostFindRoute(ToLower(StripPort(host)))
    IN  IF f.nil THEN calledErrfn(404)
        ELSE ranHandler(f.route.handler, withParams(ctx, f.names, f.values))

\* HostRouter.Serve(ctx, w, r) for a request with Host header host;
\* ServeHTTP is the call with the background context.
HostServe(ctx, host) ==
    /\ call = idle
    /\ call' = [op |-> "HostServe", ctx |-> ctx, host |-> host, resp |-> hostServe(ctx, host)]
    /\ UNCHANGED <<simpleMatch, routes, routeObjs, useURLPath, hostSimpleMatch, hostRoutes,
                   serving, locals>>
    /\ UNCHANGED nonRouterVars

(***************************************************************************)
(* Package cookie: the encoding of values.  A value is nil, a string, an   *)
(* int, an int64 or a slice of one of these: field s holds a string, n an  *)
(* integer, ss the elements of a []string, ns those of a []int or []int64; *)
(* isnil tells the nil slice from the empty one.                           *)
(***************************************************************************)
\* The digits of "0123456789ABCDEF".
upperHex ==
    <<"0", "1", "2", "3", "4", "5", "6", "7", "8", "9", "A", "B", "C", "D", "E", "F">>

RECURSIVE encodeBytesFrom(_, _, _)
\* The loop of encodeBytes from index i of s.
encodeBytesFrom(buf, s, i) ==
    IF i > Len(s) THEN buf
    ELSE IF s[i] = " " THEN encodeBytesFrom(Append(buf, "+"), s, i + 1)
    ELSE IF \/ Ord(s[i]) <= Ord(" ") \/ Ord(s[i]) >= 127
            \/ s[i] \in {"\"", ",", ";", "\\", "+", "%", "|", "!"}
    THEN encodeBytesFrom(buf \o <<"%", upperHex[(Ord(s[i]) \div 16) + 1],
                                  upperHex[(Ord(s[i]) % 16) + 1]>>, s, i + 1)
    ELSE encodeBytesFrom(Append(buf, s[i]), s, i + 1)

\* encodeBytes(buf, s).
encodeBytes(buf, s) == encodeBytesFrom(buf, s, 1)

\* The digits strconv uses: "0123456789abcdefghijklmnopqrstuvwxyz".
digits36 ==
    <<"0", "1", "2", "3", "4", "5", "6", "7", "8", "9", "a", "b", "c", "d", "e", "f",
      "g", "h", "i", "j", "k", "l", "m", "n", "o", "p", "q", "r", "s", "t", "u", "v",
      "w", "x", "y", "z">>

RECURSIVE formatUint36(_)
\* The digits of n >= 0 in base 36.
formatUint36(n) ==
    IF n < 36 THEN <<digits36[n + 1]>>
    ELSE Append(formatUint36(n \div 36), digits36[(n % 36) + 1])

\* strconv.AppendInt(buf, n, 36).
AppendInt36(buf, n) ==
    IF n < 0 THEN buf \o <<"-">> \o formatUint36(-n) ELSE buf \o formatUint36(n)

\* The value of digit c in strconv.ParseInt: 0-9, a-z and A-Z; 36 for any
\* other byte.
digitValue(c) ==
    IF \E d \in 1..36 : digits36[d] = c THEN (CHOOSE d \in 1..36 : digits36[d] = c) - 1
    ELSE IF c \in DOMAIN Ascii /\ Ord("A") <= Ord(c) /\ Ord(c) <= Ord("Z")
    THEN Ord(c) - Ord("A") + 10
    ELSE 36

RECURSIVE parseUint36(_, _, _)
\* strconv.ParseUint(s, 36, ...) from index i, n being the value so far.
parseUint36(s, i, n) ==
    IF i > Len(s) THEN [err |-> FALSE, n |-> n]
    ELSE IF digitValue(s[i]) >= 36 THEN [err |-> TRUE, n |-> 0]
    ELSE parseUint36(s, i + 1, n * 36 + digitValue(s[i]))

\* strconv.ParseInt(s, 36, bitSize), for the strings of the model, whose
\* values are far from the limits of bitSize: an optional sign, then at
\* least one digit.
ParseInt36(s) ==
    IF s = <<>> THEN [err |-> TRUE, n |-> 0]
    ELSE IF s[1] \in {"+", "-"}
    THEN IF Len(s) = 1 THEN [err |-> TRUE, n |-> 0]
         ELSE IF s[1] = "-"
         THEN [err |-> parseUint36(s, 2, 0).err, n |-> -(parseUint36(s, 2, 0).n)]
         ELSE parseUint36(s, 2, 0)
    ELSE parseUint36(s, 1, 0)

\* The value of hex digit c in package url (unhex), 16 for any other byte
\* (ishex is false).
unhex(c) ==
    IF \E d \in 1..16 : upperHex[d] = c THEN (CHOOSE d \in 1..16 : upperHex[d] = c) - 1
    ELSE IF \E d \in 11..16 : digits36[d] = c THEN (CHOOSE d \in 11..16 : digits36[d] = c) - 1
    ELSE 16

RECURSIVE unescapeFrom(_, _, _)
\* url.QueryUnescape from index i of s, out being the bytes written so far:
\* "+" is a space, "%" needs two hex digits after it.
unescapeFrom(s, i, out) ==
    IF i > Len(s) THEN [err |-> FALSE, s |-> out]
    ELSE IF s[i] = "%"
    THEN IF i + 2 > Len(s) \/ unhex(s[i + 1]) = 16 \/ unhex(s[i + 2]) = 16
         THEN [err |-> TRUE, s |-> <<>>]
         ELSE unescapeFrom(s, i + 3, Append(out, Chr(unhex(s[i + 1]) * 16 + unhex(s[i + 2]))))
    ELSE IF s[i] = "+" THEN unescapeFrom(s, i + 1, Append(out, " "))
    ELSE unescapeFrom(s, i + 1, Append(out, s[i]))

\* url.QueryUnescape(s).
QueryUnescape(s) == unescapeFrom(s, 1, <<>>)

\* split(s): s up to the first "|" and what follows it; s and "" when there
\* is none.
split(s) ==
    IF IndexByte(s, "|") > 0
    THEN [p |-> SubSeq(s, 1, IndexByte(s, "|") - 1),
          s |-> SubSeq(s, IndexByte(s, "|") + 1, Len(s))]
    ELSE [p |-> s, s |-> <<>>]

RECURSIVE SplitBang(_)
\* strings.Split(s, "!").
SplitBang(s) ==
    IF IndexByte(s, "!") = 0 THEN <<s>>
    ELSE <<SubSeq(s, 1, IndexByte(s, "!") - 1)>>
         \o SplitBang(SubSeq(s, IndexByte(s, "!") + 1, Len(s)))

\* The values of the supported types.
nilValue == [t |-> "nil", s |-> <<>>, n |-> 0, ss |-> <<>>, ns |-> <<>>, isnil |-> TRUE]
stringValue(s) == [nilValue EXCEPT !.t = "string", !.s = s, !.isnil = FALSE]
intValue(t, n) == [nilValue EXCEPT !.t = t, !.n = n, !.isnil = FALSE]
stringSlice(elems) == [nilValue EXCEPT !.t = "[]string", !.ss = elems, !.isnil = FALSE]
intSlice(t, elems) == [nilValue EXCEPT !.t = t, !.ns = elems, !.isnil = FALSE]
nilSlice(t) == [nilValue EXCEPT !.t = t]

RECURSIVE encodeElems(_, _, _, _)
\* The inner loops of encodeValues: the elements of a slice from index j,
\* with "!" between them.
encodeElems(buf, t, v, j) ==
    IF t = "[]string"
    THEN IF j > Len(v.ss) THEN buf
         ELSE encodeElems(encodeBytes(IF j # 1 THEN Append(buf, "!") ELSE buf, v.ss[j]),
                          t, v, j + 1)
    ELSE IF j > Len(v.ns) THEN buf
         ELSE encodeElems(AppendInt36(IF j # 1 THEN Append(buf, "!") ELSE buf, v.ns[j]),
                          t, v, j + 1)

\* One case of the type switch of encodeValues.
encodeValue(buf, v) ==
    CASE v.t = "nil" -> [err |-> FALSE, buf |-> buf]
      [] v.t = "string" -> [err |-> FALSE, buf |-> encodeBytes(buf, v.s)]
      [] v.t \in {"int", "int64"} -> [err |-> FALSE, buf |-> AppendInt36(buf, v.n)]
      [] v.t \in {"[]string", "[]int", "[]int64"} ->
            [err |-> FALSE, buf |-> encodeElems(buf, v.t, v, 1)]
      [] OTHER -> [err |-> TRUE, buf |-> <<>>]

RECURSIVE encodeValuesFrom(_, _, _)
RECURSIVE encodeValuesNext(_, _, _)
\* The loop of encodeValues from index i, with "|" between the values.
encodeValuesFrom(buf, values, i) ==
    IF i > Len(values) THEN [err |-> FALSE, buf |-> buf]
    ELSE encodeValuesNext(encodeValue(IF i # 1 THEN Append(buf, "|") ELSE buf, values[i]),
                          values, i)

\* The loop goes on after value i gave e.
encodeValuesNext(e, values, i) ==
    IF e.err THEN e ELSE encodeValuesFrom(e.buf, values, i + 1)

\* encodeValues(buf, values).
encodeValues(buf, values) == encodeValuesFrom(buf, values, 1)

RECURSIVE decodeElems(_, _, _, _)
\* The inner loops of decodeValues: the parts qs[j..] of a slice are decoded
\* and appended to target v.
decodeElems(t, qs, j, v) ==
    IF j > Len(qs) THEN [err |-> FALSE, v |-> v]
    ELSE IF t = "[]string"
    THEN IF QueryUnescape(qs[j]).err THEN [err |-> TRUE, v |-> v]
         ELSE decodeElems(t, qs, j + 1,
                          [v EXCEPT !.ss = Append(@, QueryUnescape(qs[j]).s), !.isnil = FALSE])
    ELSE IF ParseInt36(qs[j]).err THEN [err |-> TRUE, v |-> v]
         ELSE decodeElems(t, qs, j + 1,
                          [v EXCEPT !.ns = Append(@, ParseInt36(qs[j]).n), !.isnil = FALSE])

\* One case of the type switch of decodeValues: part p is decoded into
\* target v.
decodeValue(p, v) ==
    CASE v.t = "nil" -> [err |-> FALSE, v |-> v]
      [] v.t = "string" ->
            IF QueryUnescape(p).err THEN [err |-> TRUE, v |-> [v EXCEPT !.s = <<>>]]
            ELSE [err |-> FALSE, v |-> [v EXCEPT !.s = QueryUnescape(p).s]]
      [] v.t \in {"int", "int64"} ->
            IF ParseInt36(p).err THEN [err |-> TRUE, v |-> v]
            ELSE [err |-> FALSE, v |-> [v EXCEPT !.n = ParseInt36(p).n]]
      [] v.t \in {"[]string", "[]int", "[]int64"} -> decodeElems(v.t, SplitBang(p), 1, v)
      [] OTHER -> [err |-> TRUE, v |-> v]

RECURSIVE cookieDecodeValues(_, _, _)
RECURSIVE cookieDecodeNext(_, _, _, _)
\* decodeValues(s, values) of package cookie, from target i: the loop runs
\* while s and the targets last.
cookieDecodeValues(s, values, i) ==
    IF s = <<>> \/ i > Len(values) THEN [err |-> FALSE, values |-> values]
    ELSE cookieDecodeNext(split(s).s, values, i, decodeValue(split(s).p, values[i]))

\* The loop goes on after target i gave d.
cookieDecodeNext(s, values, i, d) ==
    IF d.err THEN [err |-> TRUE, values |-> [values EXCEPT ![i] = d.v]]
    ELSE cookieDecodeValues(s, [values EXCEPT ![i] = d.v], i + 1)

\* The target reflect.New makes for value v: a zero value of its type.
zeroOf(v) ==
    CASE v.t = "nil" -> nilValue
      [] v.t = "string" -> stringValue(<<>>)
      [] v.t \in {"int", "int64"} -> intValue(v.t, 0)
      [] OTHER -> nilSlice(v.t)

\* One round of TestEncodeDecodeValue: encodeValues(nil, values), then
\* decodeValues on its output with zero targets.
EncodeDecodeValue(values) ==
    /\ call = idle
    /\ \E e \in {encodeValues(<<>>, values)} :
         call' = [op |-> "EncodeDecodeValue", values |-> values, err |-> e.err, p |-> e.buf,
                  res |-> IF e.err THEN [err |-> TRUE, values |-> <<>>]
                          ELSE cookieDecodeValues(e.buf,
                                                  [i \in 1..Len(values) |-> zeroOf(values[i])], 1)]
    /\ UNCHANGED <<simpleMatch, routes, routeObjs, useURLPath, hostSimpleMatch, hostRoutes,
                   serving, locals>>
    /\ UNCHANGED nonRouterVars

(***************************************************************************)
(* Package cookie: Codec.  Times are whole seconds since the Unix epoch,   *)
(* durations whole seconds.  hmac.New(hashFunc, key) is modelled by its    *)
(* contract: the sum is a function of the key and of the bytes written,    *)
(* and different keys or bytes give different sums; the sum of the model   *)
(* is the key followed by the bytes written, keys being of one length.     *)
(***************************************************************************)
\* The digits of hex.Encode: "0123456789abcdef".
lowerHex == SubSeq(digits36, 1, 16)

RECURSIVE hexEncode(_)
\* hex.Encode: two digits for each byte of sum.
hexEncode(sum) ==
    IF sum = <<>> THEN <<>>
    ELSE <<lowerHex[(Ord(sum[1]) \div 16) + 1], lowerHex[(Ord(sum[1]) % 16) + 1]>>
         \o hexEncode(Tail(sum))

\* NewCodec(name, WithHMACKeys(keys), WithMaxAge(maxAge)): the other fields
\* keep the values NewCodec gives them.  The codec of the model has one key
\* and a maximum age of one second.
NewCodec(name, keys, maxAge) ==
    [name |-> name, path |-> <<"/">>, domain |-> <<>>, maxAge |-> maxAge, secure |-> FALSE,
     httpOnly |-> TRUE, hmacKeys |-> keys,
     re |-> Compile(<<"(", "?", ":", ";", " ", "|", "^", ")">> \o QuoteMeta(name) \o <<"=", "\"", "?", "(", "[", "^", " ", "\"", ",", ";", "\\", "\\", "]",
                         "+", ")">>)]

\* Codec.sign of codec c with key alone, over the codec's name, "|" and tv.
signWithKey(c, key, tv) == hexEncode(key \o c.name \o <<"|">> \o tv)

\* Codec.sign(i, tv), i counting from 1.
sign(c, i, tv) == signWithKey(c, c.hmacKeys[i], tv)

\* Codec.validate looking at the first key alone.
validateFirstKey(c, v, h) == sign(c, 1, v) = h

\* Codec.validate(v, h): h is the signature of v under one of the keys.
validate(c, v, h) == \E i \in 1..Len(c.hmacKeys) : sign(c, i, v) = h

\* Whether a cookie stamped t has expired for codec c at time tnow.
expired(c, t, tnow) == c.maxAge # 0 /\ t + c.maxAge + 1 < tnow

\* The value Decode finds for the codec's cookie in header line h: the first
\* group of the first match of c.re, "" when there is none.
cookieValue(c, h) ==
    IF FindStringSubmatch(c.re, h) = <<>> THEN <<>> ELSE FindStringSubmatch(c.re, h)[2]

\* What Decode returns: the error ("" for nil) and the targets.
decoded(err, values) == [err |-> err, values |-> values]

\* The end of Decode: decodeValues(s, values).
decodePayload(s, values) ==
    decoded(IF cookieDecodeValues(s, values, 1).err THEN "cookie: decode" ELSE "",
            cookieDecodeValues(s, values, 1).values)

\* Decode after the signature p was split off s and found valid: the time
\* stamp is split off, parsed and compared with the clock.
decodeStamped(c, s, values, tnow) ==
    IF split(s).p = <<>> THEN decoded("cookie: bad value format", values)
    ELSE IF ParseInt36(split(s).p).err THEN decoded("cookie: bad time format", values)
    ELSE IF expired(c, ParseInt36(split(s).p).n, tnow) THEN decoded("cookie: expired", values)
    ELSE decodePayload(split(s).s, values)

\* Decode on cookie value s.  hmacKeys is never nil in the model, so the
\* signature is always checked.
decodeSigned(c, s, values, tnow) ==
    IF s = <<>> THEN decoded("cookie: cookie not found", values)
    ELSE IF split(s).p = <<>> THEN decoded("cookie: bad value format", values)
    ELSE IF ~validate(c, split(s).s, split(s).p) THEN decoded("cookie: bad HMAC", values)
    ELSE decodeStamped(c, split(s).s, values, tnow)

RECURSIVE formatUint10(_)
\* The digits of n >= 0 in base 10.
formatUint10(n) ==
    IF n < 10 THEN <<digits36[n + 1]>>
    ELSE Append(formatUint10(n \div 10), digits36[(n % 10) + 1])

\* strconv.AppendInt(buf, n, 10).
AppendInt10(buf, n) ==
    IF n < 0 THEN buf \o <<"-">> \o formatUint10(-n) ELSE buf \o formatUint10(n)

\* Time.UTC().Format("Mon, 02 Jan 2006 15:04:05 GMT") for the times of the
\* model: the first minute of 1970 and the same minute thirty days before.
httpDate(t) ==
    IF t >= 0
    THEN <<"T", "h", "u", ",", " ", "0", "1", " ", "J", "a", "n", " ", "1", "9", "7", "0", " ", "0", "0", ":", "0", "0", ":">> \o (IF t < 10 THEN <<"0">> ELSE <<>>) \o formatUint10(t)
         \o <<" ", "G", "M", "T">>
    ELSE <<"T", "u", "e", ",", " ", "0", "2", " ", "D", "e", "c", " ", "1", "9", "6", "9", " ", "0", "0", ":", "0", "0", ":">> \o (IF t + 2592000 < 10 THEN <<"0">> ELSE <<>>)
         \o formatUint10(t + 2592000) \o <<" ", "G", "M", "T">>

\* The time stamp and the values Encode signs: tv.
stamped(values, tnow) == encodeValues(Append(AppendInt36(<<>>, tnow), "|"), values)

\* The first part of Encode: the cookie's value.
encodedValue(c, values, tnow) ==
    IF values = <<>> THEN [err |-> FALSE, buf |-> <<".">>]
    ELSE IF stamped(values, tnow).err THEN stamped(values, tnow)
    ELSE [err |-> FALSE,
          buf |-> sign(c, 1, stamped(values, tnow).buf) \o <<"|">> \o stamped(values, tnow).buf]

\* The second part of Encode: the attributes, maxAge being thirty days in the
\* past when there are no values.
attributes(c, maxAge, tnow) ==
    (IF c.path # <<>> THEN <<";", " ", "p", "a", "t", "h", "=">> \o c.path ELSE <<>>)
    \o (IF c.domain # <<>> THEN <<";", " ", "d", "o", "m", "a", "i", "n", "=">> \o c.domain ELSE <<>>)
    \o (IF maxAge # 0
        THEN AppendInt10(<<";", " ", "m", "a", "x", "-", "a", "g", "e", "=">>, maxAge) \o <<";", " ", "e", "x", "p", "i", "r", "e", "s", "=">> \o httpDate(tnow + maxAge)
        ELSE <<>>)
    \o (IF c.secure THEN <<";", " ", "s", "e", "c", "u", "r", "e">> ELSE <<>>)
    \o (IF c.httpOnly THEN <<";", " ", "H", "t", "t", "p", "O", "n", "l", "y">> ELSE <<>>)

\* What Encode writes to the Set-Cookie header with cookie value v.
setCookie(c, v, maxAge, tnow) == c.name \o <<"=">> \o v \o attributes(c, maxAge, tnow)

\* The name of the codec of the model.
CodecName == <<"q">>

\* The key lists of the codec: the first key, a new key put before it, the
\* new key alone.
KeyLists == << <<<<"x">>>>, <<<<"y">>, <<"x">>>>, <<<<"y">>>> >>

\* The cookie Encode issued as the model remembers it: its value, its time
\* stamp, the key that signed it and the values it carries.
issue(v, c, values, tnow) == [value |-> v, t |-> tnow, key |-> c.hmacKeys[1], values |-> values]

\* Codec.SetHMACKeys(keys): the keys are rotated, so keys is the list that
\* follows the codec's in KeyLists.
SetHMACKeys(keys) ==
    /\ call = idle
    /\ \E n \in 1..(Len(KeyLists) - 1) : cc.hmacKeys = KeyLists[n] /\ keys = KeyLists[n + 1]
    /\ cc' = [cc EXCEPT !.hmacKeys = keys]
    /\ call' = [op |-> "SetHMACKeys", keys |-> keys]
    /\ UNCHANGED <<now, issued>>
    /\ UNCHANGED routerVars
    /\ UNCHANGED templateVars

\* A second passes.
Tick ==
    /\ call = idle
    /\ now < MaxNow
    /\ now' = now + 1
    /\ UNCHANGED <<cc, issued, call>>
    /\ UNCHANGED routerVars
    /\ UNCHANGED templateVars

\* Codec.Encode(w, values...): the header it adds to w; the model remembers
\* the signed cookies it issued.
Encode(values) ==
    /\ call = idle
    /\ Len(issued) < MaxIssued
    /\ \E e \in {encodedValue(cc, values, now)} :
         /\ call' = [op |-> "Encode", values |-> values, err |-> e.err,
                     header |-> IF e.err THEN <<>>
                                ELSE setCookie(cc, e.buf,
                                               IF values = <<>> THEN -2592000 ELSE cc.maxAge,
                                               now)]
         /\ issued' = IF e.err \/ values = <<>> THEN issued
                      ELSE Append(issued, issue(e.buf, cc, values, now))
    /\ UNCHANGED <<cc, now>>
    /\ UNCHANGED routerVars
    /\ UNCHANGED templateVars

\* Codec.Decode(r, targets...) on a request whose Cookie header is h; s is
\* the value it finds there.
Decode(h, targets) ==
    /\ call = idle
    /\ \E s \in {cookieValue(cc, h)} :
         call' = [op |-> "Decode", h |-> h, s |-> s, targets |-> targets,
                  res |-> decodeSigned(cc, s, targets, now)]
    /\ UNCHANGED <<cc, now, issued>>
    /\ UNCHANGED routerVars
    /\ UNCHANGED templateVars

(***************************************************************************)
(* Package sqlutil: the fields of a struct type.  A struct field is its    *)
(* name, whether it is exported and anonymous, the parts of its sql tag    *)
(* between commas, and its type; struct types are named, "T" being the     *)
(* type FieldsForType is called with, whose fields are top.  An index is   *)
(* the path of a field, counting from 0 as reflect does.                   *)
(***************************************************************************)
\* A struct field.
structField(name, exported, anonymous, tag, type) ==
    [Name |-> name, exported |-> exported, Anonymous |-> anonymous, tag |-> tag, Type |-> type]

\* The struct types that are embedded: E has fields X and Y; A embeds E and
\* has field Z; B embeds a pointer to E and has field Y; other types are no
\* structs.
structTypes ==
    [E |-> <<structField("X", TRUE, FALSE, <<"">>, "string"),
             structField("Y", TRUE, FALSE, <<"">>, "string")>>,
     A |-> <<structField("E", TRUE, TRUE, <<"">>, "E"),
             structField("Z", TRUE, FALSE, <<"">>, "string")>>,
     B |-> <<structField("E", TRUE, TRUE, <<"">>, "*E"),
             structField("Y", TRUE, FALSE, <<"">>, "string")>>]

\* ft after "if ft.Kind() == reflect.Ptr { ft = ft.Elem() }".
elem(type) == IF type \in {"*E", "*A", "*B"} THEN CHOOSE s \in {"E", "A", "B"} : type = "*" \o s
              ELSE type

\* ft.Kind() == reflect.Struct.
isStruct(type) == type \in {"T", "E", "A", "B"}

\* The fields of struct type t.
fieldsOf(t, top) == IF t = "T" THEN top ELSE structTypes[t]

\* Context.mapName with a nil MapName.
mapName(s) == s

\* Whether the tag of sf makes collectFields panic: a part after the first
\* that is not "prefix".
badTag(sf) == \E k \in 2..Len(sf.tag) : sf.tag[k] # "prefix"

\* The prefix flag of the tag of sf.
tagPrefix(sf) == \E k \in 2..Len(sf.tag) : sf.tag[k] = "prefix"

\* The name collectFields gives sf: the first part of the tag, the field's
\* name when that is empty, after namePrefix.
columnName(sf, namePrefix) ==
    namePrefix \o (IF sf.tag[1] = "" THEN sf.Name ELSE sf.tag[1])

\* Whether collectFields flattens sf.
flattened(sf) == sf.Anonymous /\ isStruct(elem(sf.Type))

\* The Field collectFields makes.
newField(name, sf, index) == [Name |-> name, Type |-> sf.Type, Index |-> index, Tag |-> sf.tag]

\* The end of the loop body of collectFields: the field is kept unless a
\* field of the same name with an index that is not longer is there.
keepField(st, name, sf, index) ==
    IF /\ mapName(name) \in DOMAIN st.fields
       /\ Len(st.fields[mapName(name)].Index) <= Len(index)
    THEN st
    ELSE [st EXCEPT !.fields = (mapName(name) :> newField(name, sf, index)) @@ @]

RECURSIVE collectFields(_, _, _, _, _)
RECURSIVE collectLoop(_, _, _, _, _, _)
\* Context.collectFields(fields, t, visited, index, namePrefix), st holding
\* fields, visited, and whether a bad tag made it panic.
collectFields(st, t, top, index, namePrefix) ==
    IF t \in st.visited THEN st
    ELSE collectLoop([st EXCEPT !.visited = @ \cup {t}], t, top, index, namePrefix, 1)

\* The loop of collectFields from field i of t.
collectLoop(st, t, top, index, namePrefix, i) ==
    IF st.panicked \/ i > Len(fieldsOf(t, top)) THEN st
    ELSE IF ~fieldsOf(t, top)[i].exported /\ ~fieldsOf(t, top)[i].Anonymous
    THEN collectLoop(st, t, top, index, namePrefix, i + 1)
    ELSE IF badTag(fieldsOf(t, top)[i]) THEN [st EXCEPT !.panicked = TRUE]
    ELSE IF fieldsOf(t, top)[i].tag[1] = "-"
    THEN collectLoop(st, t, top, index, namePrefix, i + 1)
    ELSE IF flattened(fieldsOf(t, top)[i])
    THEN collectLoop(collectFields(st, elem(fieldsOf(t, top)[i].Type), top,
                                   Append(index, i - 1),
                                   IF tagPrefix(fieldsOf(t, top)[i])
                                   THEN columnName(fieldsOf(t, top)[i], namePrefix) \o "_"
                                   ELSE namePrefix),
                     t, top, index, namePrefix, i + 1)
    ELSE collectLoop(keepField(st, columnName(fieldsOf(t, top)[i], namePrefix),
                               fieldsOf(t, top)[i], Append(index, i - 1)),
                     t, top, index, namePrefix, i + 1)

\* Context.fieldsForType(t) for the struct type whose fields are top, with
\* nil ValueScanner and ConvertValue.
fieldsForType(top) ==
    collectFields([fields |-> <<>>, visited |-> {}, panicked |-> FALSE], "T", top, <<>>, "")

RECURSIVE indexLess(_, _)
\* The order FieldsForType sorts by: index a before index b.
indexLess(a, b) ==
    IF a = <<>> \/ b = <<>> THEN Len(a) < Len(b)
    ELSE IF a[1] < b[1] THEN TRUE
    ELSE IF a[1] > b[1] THEN FALSE
    ELSE indexLess(Tail(a), Tail(b))

RECURSIVE sortFields(_)
\* sort.Slice on the fields fs: no two of them have the same index.
sortFields(fs) ==
    IF fs = {} THEN <<>>
    ELSE <<CHOOSE f \in fs : \A g \in fs \ {f} : indexLess(f.Index, g.Index)>>
         \o sortFields(fs \ {CHOOSE f \in fs : \A g \in fs \ {f} : indexLess(f.Index, g.Index)})

\* Context.FieldsForType(t) for the struct type whose fields are top.
FieldsForType(top) ==
    /\ call = idle
    /\ \E r \in {fieldsForType(top)} :
         call' = [op |-> "FieldsForType", top |-> top, panicked |-> r.panicked,
                  result |-> IF r.panicked THEN <<>>
                             ELSE sortFields({r.fields[n] : n \in DOMAIN r.fields})]
    /\ UNCHANGED routerVars
    /\ UNCHANGED nonRouterVars

(***************************************************************************)
(* Package templates.  A parsed template set is the names it defines and   *)
(* whether one of its templates was executed; the cache of a kind maps a   *)
(* key, the file names joined, to the set parsed from these files.  The    *)
(* functions of a Template are bound to the set of its own key.  A         *)
(* sync.Mutex is the goroutine that holds it, 0 when it is free.           *)
(***************************************************************************)
\* The goroutines that call the templates.
TemplateGoroutines == 1..MaxCallers

\* mime.TypeByExtension(path.Ext(name)).
mimeType(name) ==
    IF name \in {"a.html", "c.html"} THEN "text/html; charset=utf-8"
    ELSE "text/plain; charset=utf-8"

\* Manager.NewHTML(fileNames...) and Manager.NewText(fileNames...): the
\* Template they make, not set up yet.  loads counts the runs of its load
\* function, seen holds the setup errors returned to callers.
NewTemplate(kind, fileNames) ==
    [kind |-> kind, fileNames |-> fileNames, mimeType |-> mimeType(fileNames[1]),
     bound |-> FALSE, err |-> "", done |-> FALSE, m |-> 0, loads |-> 0, seen |-> {}]

\* The templates of the model: NewHTML("a.html", "c.html"), NewHTML("c.html")
\* and NewText("d.txt").
NewTemplates ==
    <<NewTemplate("html", <<"a.html", "c.html">>), NewTemplate("html", <<"c.html">>),
      NewTemplate("text", <<"d.txt">>)>>

\* The files of the directories: whether ParseFiles accepts the file and the
\* templates it defines.  In "site" every file parses and c.html and d.txt
\* define ROOT; in "broken" a.html does not parse and d.txt defines no ROOT.
fileIn(dir, name) ==
    CASE name = "a.html" -> [parses |-> dir = "site", defines |-> {"x"}]
      [] name = "c.html" -> [parses |-> TRUE, defines |-> {"ROOT"}]
      [] OTHER -> [parses |-> TRUE, defines |-> IF dir = "site" THEN {"ROOT"} ELSE {"x"}]

\* Manager.html.base and Manager.text.base: the set that defines "_".
baseSet == [defs |-> {"_"}, executed |-> FALSE]

\* The set t of loadHTML and loadText: the base, or the set cached for cur.
setOf(cache, cur) == IF cur = <<>> THEN baseSet ELSE cache[cur]

\* Template.Clone() of html/template fails once the set was executed; the
\* one of text/template does not fail.
cloneFails(kind, set) == kind = "html" /\ set.executed

\* What a load leaves: the cache, the setup error, and the key the functions
\* of the template are bound to, if they are.
loadResult(cache, err, bound, key) == [cache |-> cache, err |-> err, bound |-> bound, key |-> key]

RECURSIVE loadFiles(_, _, _, _, _)
\* The loop of loadHTML and loadText from file i of template tp, then the
\* lookup of the root name ("ROOT"): cur is the key of the set parsed so far.
loadFiles(cache, tp, dir, i, cur) ==
    IF i = 0
    THEN IF "ROOT" \in setOf(cache, cur).defs
         THEN loadResult(cache, "", TRUE, cur)
         ELSE loadResult(cache, "Could not find ROOT", FALSE, cur)
    ELSE IF SubSeq(tp.fileNames, i, Len(tp.fileNames)) \in DOMAIN cache
    THEN loadFiles(cache, tp, dir, i - 1, SubSeq(tp.fileNames, i, Len(tp.fileNames)))
    ELSE IF cloneFails(tp.kind, setOf(cache, cur))
    THEN loadResult(cache, "cannot Clone after it has executed", FALSE, cur)
    ELSE IF ~fileIn(dir, tp.fileNames[i]).parses
    THEN loadResult(cache, "parse error", FALSE, cur)
    ELSE loadFiles((SubSeq(tp.fileNames, i, Len(tp.fileNames)) :>
                      [defs |-> setOf(cache, cur).defs \cup fileIn(dir, tp.fileNames[i]).defines,
                       executed |-> FALSE]) @@ cache,
                   tp, dir, i - 1, SubSeq(tp.fileNames, i, Len(tp.fileNames)))

\* Manager.loadHTML(template) and Manager.loadText(template) between Lock
\* and Unlock.
load(cache, tp, dir) == loadFiles(cache, tp, dir, Len(tp.fileNames), <<>>)

\* Template tp after its load function gave r.
loadedTemplate(tp, r) == [tp EXCEPT !.err = r.err, !.bound = r.bound, !.loads = @ + 1]

RECURSIVE preload(_, _, _)
\* The loop of Manager.Load with preload: setup is called on each template
\* from the k-th on, up to the first one that fails.  No other goroutine runs
\* yet, so each setup runs its load at once.
preload(mg, ts, k) ==
    IF k > Len(ts) THEN [manager |-> mg, templates |-> ts]
    ELSE IF load(mg[ts[k].kind].cache, ts[k], mg.dir).err # ""
    THEN [manager |-> [mg EXCEPT ![ts[k].kind].cache = load(@, ts[k], mg.dir).cache],
          templates |-> [ts EXCEPT ![k] = [loadedTemplate(@, load(mg[@.kind].cache, @, mg.dir))
                                             EXCEPT !.done = TRUE]]]
    ELSE preload([mg EXCEPT ![ts[k].kind].cache = load(@, ts[k], mg.dir).cache],
                 [ts EXCEPT ![k] = [loadedTemplate(@, load(mg[@.kind].cache, @, mg.dir))
                                      EXCEPT !.done = TRUE]],
                 k + 1)

\* A Manager before Load.
newManager ==
    [loaded |-> FALSE, dir |-> "",
     html |-> [mu |-> 0, cache |-> <<>>], text |-> [mu |-> 0, cache |-> <<>>]]

\* What a call returns or writes: a bool, an error, the output of the
\* template, or a response with its Content-Type, with gzip or not.
returned(kind, value, err, mime) == [kind |-> kind, value |-> value, err |-> err, mimeType |-> mime]

\* A goroutine that calls no template.
noTemplateCall == [pc |-> "idle", t |-> 1, method |-> "", gzip |-> FALSE, name |-> "",
                   err |-> "", res |-> returned("none", FALSE, "", "")]

\* Manager.Load(dir, preload).
ManagerLoad(dir, pre) ==
    /\ call = idle
    /\ ~manager.loaded
    /\ \E mg \in {[newManager EXCEPT !.loaded = TRUE, !.dir = dir]} :
         IF pre
         THEN /\ manager' = preload(mg, templates, 1).manager
              /\ templates' = preload(mg, templates, 1).templates
         ELSE /\ manager' = mg
              /\ UNCHANGED templates
    /\ UNCHANGED <<call, texec, tcalls>>
    /\ UNCHANGED routerVars
    /\ UNCHANGED cookieVars

\* Goroutine g calls Execute, ExecuteTemplate, HasTemplate or WriteResponse
\* on template t: the call begins with setup.
TemplateCall(g, t, method, name, gzip) ==
    /\ call = idle
    /\ manager.loaded
    /\ texec[g].pc = "idle"
    /\ tcalls < MaxTemplateCalls
    /\ tcalls' = tcalls + 1
    /\ texec' = [texec EXCEPT ![g] = [noTemplateCall EXCEPT !.pc = "setup", !.t = t,
                                        !.method = method, !.name = name, !.gzip = gzip]]
    /\ UNCHANGED <<call, manager, templates>>
    /\ UNCHANGED routerVars
    /\ UNCHANGED cookieVars

\* Whether once.Do runs the function for a goroutine that found done unset:
\* it needs the mutex of the Once.  This one takes no mutex.
mayRunUnlocked(tp) == TRUE

\* Whether once.Do runs the function for a goroutine that found done unset:
\* it needs the mutex of the Once.
mayRun(tp) == tp.m = 0

\* t.once.Do(t.load) begins: nothing to do when done is set; else the
\* goroutine takes the mutex of the Once, waiting for it while another one
\* holds it, and runs load if done is still unset.
OnceDo(g) ==
    /\ texec[g].pc = "setup"
    /\ IF templates[texec[g].t].done
       THEN /\ texec' = [texec EXCEPT ![g].pc = "check"]
            /\ UNCHANGED templates
       ELSE /\ mayRun(templates[texec[g].t])
            /\ templates' = [templates EXCEPT ![texec[g].t].m = g, ![texec[g].t].loads = @ + 1]
            /\ texec' = [texec EXCEPT ![g].pc = "lock"]
    /\ UNCHANGED <<call, manager, tcalls>>
    /\ UNCHANGED routerVars
    /\ UNCHANGED cookieVars

\* loadHTML and loadText: the mutex of the cache is taken.
LoadLock(g) ==
    /\ texec[g].pc = "lock"
    /\ manager[templates[texec[g].t].kind].mu = 0
    /\ manager' = [manager EXCEPT ![templates[texec[g].t].kind].mu = g]
    /\ texec' = [texec EXCEPT ![g].pc = "load"]
    /\ UNCHANGED <<call, templates, tcalls>>
    /\ UNCHANGED routerVars
    /\ UNCHANGED cookieVars

\* loadHTML and loadText: the files are parsed, the cache is updated, the
\* functions or the error of the template are set.
LoadRun(g) ==
    /\ texec[g].pc = "load"
    /\ \E r \in {load(manager[templates[texec[g].t].kind].cache, templates[texec[g].t],
                      manager.dir)} :
         /\ manager' = [manager EXCEPT ![templates[texec[g].t].kind].cache = r.cache]
         /\ templates' = [templates EXCEPT ![texec[g].t].err = r.err,
                                           ![texec[g].t].bound = r.bound]
    /\ texec' = [texec EXCEPT ![g].pc = "unlock"]
    /\ UNCHANGED <<call, tcalls>>
    /\ UNCHANGED routerVars
    /\ UNCHANGED cookieVars

\* loadHTML and loadText return: the mutex of the cache is released; then
\* once.Do sets done and releases the mutex of the Once.
LoadUnlock(g) ==
    /\ texec[g].pc = "unlock"
    /\ manager' = [manager EXCEPT ![templates[texec[g].t].kind].mu = 0]
    /\ templates' = [templates EXCEPT ![texec[g].t].done = TRUE, ![texec[g].t].m = 0]
    /\ texec' = [texec EXCEPT ![g].pc = "check"]
    /\ UNCHANGED <<call, tcalls>>
    /\ UNCHANGED routerVars
    /\ UNCHANGED cookieVars

\* What a call that does not reach the functions of the template returns for
\* setup error err: the error, false from HasTemplate.
setupFailed(method, err) ==
    IF method = "HasTemplate" THEN returned("bool", FALSE, "", "")
    ELSE returned("error", FALSE, err, "")

\* setup returns t.err, and the call returns if it is an error.
SetupReturn(g) ==
    /\ texec[g].pc = "check"
    /\ templates' = [templates EXCEPT ![texec[g].t].seen = @ \cup {templates[texec[g].t].err}]
    /\ texec' = [texec EXCEPT ![g].err = templates[texec[g].t].err,
                              ![g].pc = IF templates[texec[g].t].err # "" THEN "done" ELSE "use",
                              ![g].res = IF templates[texec[g].t].err # ""
                                         THEN setupFailed(texec[g].method,
                                                          templates[texec[g].t].err)
                                         ELSE @]
    /\ UNCHANGED <<call, manager, tcalls>>
    /\ UNCHANGED routerVars
    /\ UNCHANGED cookieVars

\* What the call of goroutine g returns from the functions of its template,
\* bound to parsed set set: HasTemplate looks the name up; Execute and
\* ExecuteTemplate write the output; WriteResponse writes the response, with
\* gzip if the request accepts it.
used(x, tp, set) ==
    CASE x.method = "HasTemplate" -> returned("bool", x.name \in set.defs, "", "")
      [] x.method = "Execute" -> returned("output", TRUE, "", "")
      [] x.method = "ExecuteTemplate" ->
            IF x.name \in set.defs THEN returned("output", TRUE, "", "")
            ELSE returned("error", FALSE, "template is undefined", "")
      [] OTHER -> returned("response", x.gzip, "", tp.mimeType)

\* The call uses t.execute, t.executeTemplate or t.hasTemplate: a nil
\* function when load did not set them; a template that is executed marks
\* the parsed set.
TemplateUse(g) ==
    /\ texec[g].pc = "use"
    /\ IF ~templates[texec[g].t].bound
       THEN /\ texec' = [texec EXCEPT ![g].pc = "done",
                                        ![g].res = returned("panic", FALSE, "", "")]
            /\ UNCHANGED manager
       ELSE /\ texec' = [texec EXCEPT ![g].pc = "done",
                           ![g].res = used(texec[g], templates[texec[g].t],
                                           manager[templates[texec[g].t].kind].cache[
                                               templates[texec[g].t].fileNames])]
            /\ manager' = IF \/ texec[g].method = "HasTemplate"
                             \/ /\ texec[g].method = "ExecuteTemplate"
                                /\ texec[g].name \notin
                                      manager[templates[texec[g].t].kind].cache[
                                          templates[texec[g].t].fileNames].defs
                          THEN manager
                          ELSE [manager EXCEPT ![templates[texec[g].t].kind].cache[
                                                    templates[texec[g].t].fileNames].executed = TRUE]
    /\ UNCHANGED <<call, templates, tcalls>>
    /\ UNCHANGED routerVars
    /\ UNCHANGED cookieVars

\* The call of goroutine g returns.
TemplateReturn(g) ==
    /\ texec[g].pc = "done"
    /\ texec' = [texec EXCEPT ![g] = noTemplateCall]
    /\ UNCHANGED <<call, manager, templates, tcalls>>
    /\ UNCHANGED routerVars
    /\ UNCHANGED cookieVars

(***************************************************************************)
(* A client that follows the redirects of a Router.                        *)
(***************************************************************************)
\* The Location http.Redirect writes for url on a request with URL path
\* oldpath: a url whose path does not parse is written as it is; else a url
\* that does not begin with "/" is put after the directory of oldpath, and
\* the text before the first "?" is cleaned with its trailing "/" kept.
redirectLocation(url, oldpath) ==
    LET old == IF oldpath = <<>> THEN <<"/">> ELSE oldpath
        abs == IF url = <<>> \/ url[1] # "/"
               THEN SubSeq(old, 1, LastIndexByte(old, "/")) \o url
               ELSE url
        i == IndexByte(abs, "?")
        path == IF i > 0 THEN SubSeq(abs, 1, i - 1) ELSE abs
        query == IF i > 0 THEN SubSeq(abs, i, Len(abs)) ELSE <<>>
    IN  IF decodeLoop((IF IndexByte(url, "?") > 0 THEN SubSeq(url, 1, IndexByte(url, "?") - 1) ELSE url), 1, <<>>).err THEN url
        ELSE pathClean(path)
             \o (IF EndsInSlash(path) /\ ~EndsInSlash(pathClean(path)) THEN <<"/">> ELSE <<>>)
             \o query

\* The redirects the client has followed to make call c.
hopsOf(c) == IF c.op = "Follow" THEN c.hops ELSE 0

\* The client that got a 301 from Serve sends the request again with the
\* Location as request target; prev is the request that was redirected.
Follow ==
    /\ call.op \in {"Serve", "Follow"}
    /\ call.resp.kind = "redirect"
    /\ hopsOf(call) < MaxHops
    /\ \E loc \in {redirectLocation(call.resp.url, call.r.URL.Path)} :
          /\ loc # <<>> /\ loc[1] = "/"
          /\ call' = [op |-> "Follow", prev |-> call.r, hops |-> hopsOf(call) + 1,
                      r |-> Request(loc, call.r.Method),
                      resp |-> serve(background, Request(loc, call.r.Method))]
    /\ UNCHANGED <<simpleMatch, routes, routeObjs, useURLPath, hostSimpleMatch, hostRoutes,
                   serving, locals>>
    /\ UNCHANGED nonRouterVars

(***************************************************************************)
(* The inputs of the model.                                                *)
(***************************************************************************)
\* Patterns given to Router.Add:  /  /a  /a/  /<x>  /<x>/  /<:.*>  and the
\* empty pattern and  a
PathPatterns ==
    { <<>>,
      <<"a">>,
      <<"/">>,
      <<"/", "a">>,
      <<"/", "a", "/">>,
      <<"/", "<", "x", ">">>,
      <<"/", "<", "x", ">", "/">>,
      <<"/", "<", ":", ".", "*", ">">> }

\* Path segments of request targets:  (empty)  a  ..  %2f  %2
Segs ==
    { <<>>, <<"a">>, <<".", ".">>, <<"%", "2", "f">>, <<"%", "2">> }

\* Query strings of request targets:  (none)  ?q
Queries == { <<>>, <<"?", "q">> }

\* The request targets: "/" and up to MaxSegs segments joined by "/", with a
\* query string or none; and two targets that do not start with "/".
RequestTargets ==
    { <<"/">> \o JoinSlash(segs) \o q :
        segs \in UNION { [1..n -> Segs] : n \in 1..MaxSegs }, q \in Queries }
    \cup { <<>>, <<"a">> }

\* The paths Serve may be given to normalize: every string of "/", "." and
\* "a" of up to MaxPathLen bytes.
PathBytes == {"/", ".", "a"}
Paths == UNION { [1..n -> PathBytes] : n \in 0..MaxPathLen }

\* The strings given to percentDecode: every string of "%", the digits "2",
\* "5", "f", "F" and the letter "g" of up to MaxDecodeLen bytes.
DecodeBytes == {"%", "2", "5", "f", "F", "g"}
EncodedStrings == UNION { [1..n -> DecodeBytes] : n \in 0..MaxDecodeLen }

\* Methods handlers are registered for, and methods of requests.
RegMethods == {"GET", "HEAD", "*"}
ReqMethods == {"GET", "HEAD", "POST", "PUT"}

\* The patterns and request targets used with them:  /a  /a/  /<x>  and
\* /a  /a/  /b/  /%2  /%252f
MethodPatterns ==
    { <<"/", "a">>, <<"/", "a", "/">>, <<"/", "<", "x", ">">> }
MethodTargets ==
    { <<"/", "a">>, <<"/", "a", "/">>, <<"/", "b", "/">>, <<"/", "%", "2">>,
      <<"/", "%", "2", "5", "2", "f">> }

\* Patterns given to HostRouter.Add:  a.b  <x>  <x>.b  <x>.<y>  <:.*>
HostPatterns ==
    { <<"a", ".", "b">>,
      <<"<", "x", ">">>,
      <<"<", "x", ">", ".", "b">>,
      <<"<", "x", ">", ".", "<", "y", ">">>,
      <<"<", ":", ".", "*", ">">> }

\* Host header values: up to MaxLabels labels joined by ".", or the address
\* in brackets [a], with a port or none; and the empty value.
Labels == { <<"a">>, <<"b">>, <<"A">> }
Ports == { <<>>, <<":", "8">> }
RECURSIVE JoinDot(_)
JoinDot(labels) ==
    IF Len(labels) = 1 THEN labels[1]
    ELSE labels[1] \o <<".">> \o JoinDot(Tail(labels))
\* The contexts HostRouter.Serve is called with: the background context and
\* one that holds a parameter y already.
CallerContexts == { background, (<<"y">> :> <<"q">>) }

Hosts ==
    { JoinDot(ls) \o port :
        ls \in UNION { [1..n -> Labels] : n \in 1..MaxLabels }, port \in Ports }
    \cup { <<"[", "a", "]">> \o port : port \in Ports }
    \cup { <<>> }

\* The values given to encodeValues: nil; the strings (empty)  a  "a|"  " !"
\* "%+"; the ints 0, 1, -1, 36 and -37; the int64 100; the slices of strings
\* (empty), [a], [(empty)] and ["a b", "|!"]; the slices of ints (empty),
\* [1] and [-1, 36]; the slices of int64 (empty) and [35].
CookieValues ==
    { nilValue,
      stringValue(<<>>), stringValue(<<"a">>), stringValue(<<"a", "|">>),
      stringValue(<<" ", "!">>), stringValue(<<"%", "+">>),
      intValue("int", 0), intValue("int", 1), intValue("int", -1), intValue("int", 36),
      intValue("int", -37), intValue("int64", 100),
      stringSlice(<<>>), stringSlice(<< <<"a">> >>), stringSlice(<< <<>> >>),
      stringSlice(<< <<"a", " ", "b">>, <<"|", "!">> >>),
      intSlice("[]int", <<>>), intSlice("[]int", <<1>>), intSlice("[]int", <<-1, 36>>),
      intSlice("[]int64", <<>>), intSlice("[]int64", <<35>>) }

\* The lists of up to MaxValues values.
ValueLists == UNION { [1..n -> CookieValues] : n \in 1..MaxValues }

\* The values given to Encode: none (the cookie is deleted), one string, a
\* string and an int.
EncodeValues == { <<>>, <<stringValue(<<"a">>)>>, <<stringValue(<<"b">>), intValue("int", 1)>> }

\* The targets given to Decode: a *string and an *int.
DecodeTargets == <<stringValue(<<>>), intValue("int", 0)>>

\* The bytes a client writes into a cookie it changes.
TamperBytes == {"0", " "}

\* The changes of one byte of v: byte i replaced by "0", byte i removed, a
\* byte put before byte i or at the end.
edits(v) ==
    { [v EXCEPT ![i] = "0"] : i \in {j \in 1..Len(v) : v[j] # "0"} }
    \cup { SubSeq(v, 1, i - 1) \o SubSeq(v, i + 1, Len(v)) : i \in 1..Len(v) }
    \cup { SubSeq(v, 1, i - 1) \o <<c>> \o SubSeq(v, i, Len(v)) :
             i \in 1..(Len(v) + 1), c \in TamperBytes }

\* The signature, the time stamp and the payload of cookie value v.
fields(v) == <<split(v).p, split(split(v).s).p, split(split(v).s).s>>

\* Cookie value v with field f taken from cookie value w.
spliced(v, w, f) ==
    [fields(v) EXCEPT ![f] = fields(w)[f]][1] \o <<"|">>
    \o [fields(v) EXCEPT ![f] = fields(w)[f]][2] \o <<"|">>
    \o [fields(v) EXCEPT ![f] = fields(w)[f]][3]

\* The cookie values a client sends back: the ones issued, as they are or
\* with one field taken from another one, and, while no second cookie is
\* issued, the first one with one byte changed.
sentBack ==
    UNION { {issued[k].value}
            \cup { spliced(issued[k].value, issued[l].value, f) :
                     l \in 1..Len(issued), f \in 1..3 }
            \cup (IF Len(issued) = 1 THEN edits(issued[k].value) ELSE {}) :
            k \in 1..Len(issued) }

\* The Cookie headers of the requests: no cookie of the codec's name, or a
\* value sent back, alone, or in quotes among other cookies.
CookieHeaders ==
    { <<>>, <<"q", "q", "=", "0">> }
    \cup { CodecName \o <<"=">> \o v : v \in sentBack }
    \cup { <<"p", "=", "0", ";", " ">> \o CodecName \o <<"=", "\"">> \o issued[k].value
             \o <<"\"", ";", " ", "r", "=", "0">> :
             k \in 1..Len(issued) }

\* The fields a struct type T is made of: plain fields, a field with an
\* alias, one that is not exported, one disabled with "-", one with a bad
\* tag, and the embedded types, as they are, by pointer, or with a prefix.
TopFields ==
    { structField("X", TRUE, FALSE, <<"">>, "string"),
      structField("W", TRUE, FALSE, <<"Y">>, "string"),
      structField("y", FALSE, FALSE, <<"">>, "string"),
      structField("Z", TRUE, FALSE, <<"-">>, "string"),
      structField("V", TRUE, FALSE, <<"", "bogus">>, "string"),
      structField("E", TRUE, TRUE, <<"">>, "E"),
      structField("A", TRUE, TRUE, <<"">>, "A"),
      structField("A", TRUE, TRUE, <<"a", "prefix">>, "*A"),
      structField("B", TRUE, TRUE, <<"">>, "B") }

\* The struct types T: up to MaxFields fields with different names.
TopTypes ==
    UNION { { top \in [1..n -> TopFields] :
                \A i, j \in 1..n : i # j => top[i].Name # top[j].Name } : n \in 1..MaxFields }

\* The directories given to Manager.Load.
TemplateDirs == {"site", "broken"}

\* The calls made on a template: the method, the template name given to
\* ExecuteTemplate and HasTemplate, and whether the request given to
\* WriteResponse accepts gzip.
TemplateMethods ==
    { [method |-> "Execute", name |-> "", gzip |-> FALSE],
      [method |-> "ExecuteTemplate", name |-> "x", gzip |-> FALSE],
      [method |-> "HasTemplate", name |-> "x", gzip |-> FALSE],
      [method |-> "WriteResponse", name |-> "", gzip |-> FALSE],
      [method |-> "WriteResponse", name |-> "", gzip |-> TRUE] }

\* Patterns given to Add with a placeholder whose expression does not
\* compile:  /<x:*>  for the path router and  <x:*>  for the host router.
BadExprPattern == <<"/", "<", "x", ":", "*", ">">>
BadExprHostPattern == <<"<", "x", ":", "*", ">">>

\* The request targets a client starts from: those of RequestTargets, and
\* /a%3f  /../a%3f  whose last segment holds an escaped "?".
FollowTargets ==
    RequestTargets
    \cup { <<"/", "a", "%", "3", "f">>, <<"/", ".", ".", "/", "a", "%", "3", "f">> }

(***************************************************************************)
(* Specifications.                                                         *)
(***************************************************************************)
\* router.New() and NewHostRouter().
Init ==
    /\ simpleMatch = <<>>
    /\ routes = <<>>
    /\ routeObjs = <<>>
    /\ useURLPath = FALSE
    /\ hostSimpleMatch = <<>>
    /\ hostRoutes = <<>>
    /\ call = idle
    /\ serving = [g \in Goroutines |-> notCalled]
    /\ locals = [g \in Goroutines |-> noLocals]
    /\ cc = NewCodec(CodecName, <<<<"x">>>>, 1)
    /\ now = 0
    /\ issued = <<>>
    /\ manager = newManager
    /\ templates = NewTemplates
    /\ texec = [g \in TemplateGoroutines |-> noTemplateCall]
    /\ tcalls = 0

\* A program that uses one router: a path router whose routes have a GET
\* handler or none, or a host router.  The two routers share no state, so
\* the calls on one are made while the other is still empty.
Next ==
    \/ hostRouteCount = 0 /\ \E pat \in PathPatterns : Add(pat)
    \/ \E id \in 1..Len(routeObjs) : Method(id, "GET")
    \/ hostRouteCount = 0 /\ UseURLPath
    \/ hostRouteCount = 0 /\ \E uri \in RequestTargets, m \in {"GET", "POST"} : Serve(uri, m)
    \/ routeObjs = <<>> /\ ~useURLPath /\ \E pat \in HostPatterns : HostAdd(pat)
    \/ routeObjs = <<>> /\ ~useURLPath /\ \E ctx \in CallerContexts, host \in Hosts : HostServe(ctx, host)
    \/ Return

Spec == Init /\ [][Next]_vars

\* The path router with every set of method handlers on its routes, and
\* every request method, in either path mode.
MethodNext ==
    \/ \E pat \in MethodPatterns : Add(pat)
    \/ \E id \in 1..Len(routeObjs), m \in RegMethods : Method(id, m)
    \/ UseURLPath
    \/ \E uri \in MethodTargets, m \in ReqMethods : Serve(uri, m)
    \/ Return

MethodSpec == Init /\ [][MethodNext]_vars

\* The patterns and request targets of concurrent calls:  /a/  /<x>  and
\* /a  /b/  /%2f  /%2
ConcPatterns == { <<"/", "a", "/">>, <<"/", "<", "x", ">">> }
ConcTargets ==
    { <<"/", "a">>, <<"/", "b", "/">>, <<"/", "%", "2", "f">>, <<"/", "%", "2">> }

\* Registration on one router, then Serve calls by MaxServing goroutines, their
\* steps interleaved in every way.
ConcNext ==
    \/ ~begun /\ \E pat \in ConcPatterns : Add(pat)
    \/ ~begun /\ \E id \in 1..Len(routeObjs) : Method(id, "GET")
    \/ ~begun /\ UseURLPath
    \/ Return
    \/ \E g \in Goroutines, uri \in ConcTargets : ServeBegin(g, uri, "GET")
    \/ \E g \in Goroutines : ServeLookup(g)
    \/ \E g \in Goroutines : ServeDecode(g)
    \/ \E g \in Goroutines : ServeInvoke(g)

ConcSpec == Init /\ [][ConcNext]_vars

\* Patterns whose placeholders carry expressions with groups, and request
\* targets for them:  /<x>/  /<x:(a|b)+>  and  /<:a)|(>/  whose expression
\* closes the group of its placeholder and opens another; the targets are
\* the empty one,  /  /a  /a/  /ab
ExprPatterns ==
    { <<"/", "<", "x", ">", "/">>,
      <<"/", "<", "x", ":", "(", "a", "|", "b", ")", "+", ">">>,
      <<"/", "<", ":", "a", ")", "|", "(", ">", "/">> }
ExprTargets ==
    { <<>>, <<"/">>, <<"/", "a">>, <<"/", "a", "/">>, <<"/", "a", "b">> }

\* The path router with such patterns, in either path mode.
ExprNext ==
    \/ \E pat \in ExprPatterns : Add(pat)
    \/ \E id \in 1..Len(routeObjs) : Method(id, "GET")
    \/ UseURLPath
    \/ \E uri \in ExprTargets : Serve(uri, "GET")
    \/ Return

ExprSpec == Init /\ [][ExprNext]_vars

\* The normalization step of Serve alone, on every path.
NormNext ==
    \/ \E p \in Paths : Normalize(p)
    \/ Return

NormSpec == Init /\ [][NormNext]_vars

\* percentDecode alone, on every string.
DecodeNext ==
    \/ \E s \in EncodedStrings : PercentDecode(s)
    \/ Return

DecodeSpec == Init /\ [][DecodeNext]_vars

\* TestEncodeDecodeValue on every list of values.
ValueNext ==
    \/ \E values \in ValueLists : EncodeDecodeValue(values)
    \/ Return

ValueSpec == Init /\ [][ValueNext]_vars

\* A server that issues signed cookies and rotates its keys, and clients
\* that send the cookies back, as they are or changed.
CookieNext ==
    \/ \E n \in 1..Len(KeyLists) : SetHMACKeys(KeyLists[n])
    \/ Tick
    \/ \E values \in EncodeValues : Encode(values)
    \/ \E h \in CookieHeaders : Decode(h, DecodeTargets)
    \/ Return

CookieSpec == Init /\ [][CookieNext]_vars

\* FieldsForType on every struct type of the model.
FieldsNext ==
    \/ \E top \in TopTypes : FieldsForType(top)
    \/ Return

FieldsSpec == Init /\ [][FieldsNext]_vars

\* A program that loads its templates from a directory, with or without
\* preloading, and then calls them from several goroutines.
TemplateNext ==
    \/ \E dir \in TemplateDirs, pre \in BOOLEAN : ManagerLoad(dir, pre)
    \/ \E g \in TemplateGoroutines, t \in 1..Len(NewTemplates), c \in TemplateMethods :
          TemplateCall(g, t, c.method, c.name, c.gzip)
    \/ \E g \in TemplateGoroutines : OnceDo(g)
    \/ \E g \in TemplateGoroutines : LoadLock(g)
    \/ \E g \in TemplateGoroutines : LoadRun(g)
    \/ \E g \in TemplateGoroutines : LoadUnlock(g)
    \/ \E g \in TemplateGoroutines : SetupReturn(g)
    \/ \E g \in TemplateGoroutines : TemplateUse(g)
    \/ \E g \in TemplateGoroutines : TemplateReturn(g)

TemplateSpec == Init /\ [][TemplateNext]_vars

\* A program whose Add calls may fail in each way: the patterns of Spec and
\* the ones whose expression does not compile.
RegisterNext ==
    \/ hostRouteCount = 0 /\ \E pat \in PathPatterns \cup {BadExprPattern} : Add(pat)
    \/ \E id \in 1..Len(routeObjs) : Method(id, "GET")
    \/ hostRouteCount = 0 /\ UseURLPath
    \/ hostRouteCount = 0 /\ \E uri \in RequestTargets, m \in {"GET", "POST"} : Serve(uri, m)
    \/ routeObjs = <<>> /\ ~useURLPath
          /\ \E pat \in HostPatterns \cup {BadExprHostPattern} : HostAdd(pat)
    \/ routeObjs = <<>> /\ ~useURLPath /\ \E ctx \in CallerContexts, host \in Hosts : HostServe(ctx, host)
    \/ Return

RegisterSpec == Init /\ [][RegisterNext]_vars

\* The path router with a client that follows its redirects; the
\* normalization step alone is run on every path while the router is empty.
FollowNext ==
    \/ \E pat \in PathPatterns : Add(pat)
    \/ \E id \in 1..Len(routeObjs) : Method(id, "GET")
    \/ UseURLPath
    \/ \E uri \in FollowTargets, m \in {"GET", "POST"} : Serve(uri, m)
    \/ Follow
    \/ routeObjs = <<>> /\ ~useURLPath /\ \E p \in Paths : Normalize(p)
    \/ Return

FollowSpec == Init /\ [][FollowNext]_vars

(***************************************************************************)
(* Properties.                                                             *)
(***************************************************************************)
\* The text of request target uri before the first "?", and the text from it.
pathPart(uri) ==
    IF IndexByte(uri, "?") > 0 THEN SubSeq(uri, 1, IndexByte(uri, "?") - 1) ELSE uri
queryPart(uri) ==
    IF IndexByte(uri, "?") > 0 THEN SubSeq(uri, IndexByte(uri, "?"), Len(uri)) ELSE <<>>

\* The normalized form of path p: "/" for the empty path and for "/", else
\* the cleaned path, with the trailing "/" of p kept if the cleaned path does
\* not end in one.
normalForm(p) ==
    IF p = <<>> \/ p = <<"/">> THEN <<"/">>
    ELSE IF EndsInSlash(p) /\ ~EndsInSlash(pathClean(p)) THEN pathClean(p) \o <<"/">>
    ELSE pathClean(p)

\* The path of the request of the last Serve call, as the mode of the router
\* has it.
servedPath ==
    IF useURLPath THEN call.r.URL.Path ELSE pathPart(call.r.RequestURI)

\* The last call was a Serve call that got as far as the route lookup: it
\* found nothing to change in the path, or the router uses the URL path.
lookedUp ==
    /\ call.op = "Serve"
    /\ useURLPath \/ pathPart(call.r.RequestURI) = normalize(pathPart(call.r.RequestURI))

\* The host of the last HostServe call, without port and in lower case.
servedHost == ToLower(StripPort(call.host))

\* The regex routes whose expression matches path, by route id (the ids
\* count the Add calls), and the same for the host router by the number of
\* the Add call that brought the handler.
matching(path) ==
    { id \in 1..Len(routeObjs) :
        /\ ~routeObjs[id].cpat.nil
        /\ FindStringSubmatch(routeObjs[id].cpat, path) # <<>> }
hostMatching(host) ==
    { hostRoutes[i].handler.route : i \in
        { j \in 1..Len(hostRoutes) : FindStringSubmatch(hostRoutes[j].cpat, host) # <<>> } }

\* The least element of a non-empty set of numbers.
Min(S) == CHOOSE x \in S : \A y \in S : x <= y

\* C1: a lookup key that is a key of the literal map resolves to the literal
\* route, in the path router and in the host router, also when a regex route
\* matches the key; and a request for such a key is dispatched to a handler of
\* that route.
C1_LiteralPrecedence ==
    /\ \A k \in DOMAIN simpleMatch : findRoute(k).route = simpleMatch[k]
    /\ \A k \in DOMAIN hostSimpleMatch :
          /\ ~hostFindRoute(k).nil
          /\ hostFindRoute(k).route = hostSimpleMatch[k]
    /\ (lookedUp /\ servedPath \in DOMAIN simpleMatch /\ call.resp.kind = "handler")
          => call.resp.handler.route = simpleMatch[servedPath]
    /\ (call.op = "HostServe" /\ servedHost \in DOMAIN hostSimpleMatch)
          => /\ call.resp.kind = "handler"
             /\ call.resp.handler = hostSimpleMatch[servedHost].handler

\* A request for a literal key that a regex route matches too has run a
\* handler of the literal route.
C1_Witness ==
    /\ lookedUp
    /\ servedPath \in DOMAIN simpleMatch
    /\ matching(servedPath) # {}
    /\ call.resp.kind = "handler"
    /\ call.resp.handler.route = simpleMatch[servedPath]

\* C2: a lookup key that is not in the literal map and that several regex
\* routes match resolves to the one of them that was added first, in the path
\* router and in the host router.
C2_RegistrationOrder ==
    /\ (lookedUp /\ servedPath \notin DOMAIN simpleMatch /\ matching(servedPath) # {})
          => /\ findRoute(servedPath).route = Min(matching(servedPath))
             /\ call.resp.kind = "handler"
                   => call.resp.handler.route = Min(matching(servedPath))
    /\ (call.op = "HostServe" /\ servedHost \notin DOMAIN hostSimpleMatch
           /\ hostMatching(servedHost) # {})
          => /\ call.resp.kind = "handler"
             /\ call.resp.handler.route = Min(hostMatching(servedHost))

\* A host that two regex routes match has been dispatched to the handler of
\* the first.
C2_Witness ==
    /\ call.op = "HostServe"
    /\ servedHost \notin DOMAIN hostSimpleMatch
    /\ Cardinality(hostMatching(servedHost)) > 1
    /\ call.resp.kind = "handler"
    /\ call.resp.handler.route = Min(hostMatching(servedHost))

\* The route the lookup of the last Serve call found (0: none), its handlers,
\* and whether the trailing-slash redirect applies to the request.
servedRoute == findRoute(servedPath).route
servedHandlers == routeObjs[servedRoute].handlers
slashPending == routeObjs[servedRoute].addSlash /\ ~EndsInSlash(servedPath)

\* Route handlers hs have a handler for method m, by itself, by "GET" for
\* "HEAD", or by "*".
resolves(hs, m) ==
    \/ m \in DOMAIN hs
    \/ m = "HEAD" /\ "GET" \in DOMAIN hs
    \/ "*" \in DOMAIN hs

\* Value v has a "%" that is not followed by two hex digits.
HexDigits ==
    {"0", "1", "2", "3", "4", "5", "6", "7", "8", "9",
     "a", "b", "c", "d", "e", "f", "A", "B", "C", "D", "E", "F"}
malformed(v) ==
    \E i \in 1..Len(v) :
        /\ v[i] = "%"
        /\ ~(i + 2 <= Len(v) /\ v[i + 1] \in HexDigits /\ v[i + 2] \in HexDigits)

\* A named capture of the match of the last Serve call is malformed.
badCapture ==
    LET f == findRoute(servedPath)
    IN  \E i \in 1..Len(f.names) : f.names[i] # <<>> /\ malformed(f.values[i])

\* The last Serve call ran handler h.
ran(h) == call.resp.kind = "handler" /\ call.resp.handler = h

\* C3: on a matched route with no slash redirect pending, the handler run for
\* method m is the one registered for m; if there is none and m is HEAD, the
\* GET handler; if there is none either, the "*" handler.  (The one case in
\* which that handler is not run is the 400 of a malformed capture.)
C3_MethodFallback ==
    (lookedUp /\ servedRoute # 0 /\ ~slashPending /\ ~(~useURLPath /\ badCapture))
        => LET m == call.r.Method
               hs == servedHandlers
           IN  /\ m \in DOMAIN hs => ran(userHandler(servedRoute, m))
               /\ (m \notin DOMAIN hs /\ m = "HEAD" /\ "GET" \in DOMAIN hs)
                     => ran(userHandler(servedRoute, "GET"))
               /\ (m \notin DOMAIN hs /\ ~(m = "HEAD" /\ "GET" \in DOMAIN hs)
                      /\ "*" \in DOMAIN hs)
                     => ran(userHandler(servedRoute, "*"))

\* A HEAD request on a route with a GET and a "*" handler and none for HEAD
\* has run the GET handler.
C3_Witness ==
    /\ lookedUp /\ servedRoute # 0 /\ ~slashPending
    /\ call.r.Method = "HEAD"
    /\ DOMAIN servedHandlers = {"GET", "*"}
    /\ ran(userHandler(servedRoute, "GET"))

\* C4: when the path (path router) or the host without port in lower case
\* (host router) is no literal key and matches no regex route, Serve calls
\* the error function with 404 and runs no handler.
C4_NotFound ==
    /\ (lookedUp /\ servedPath \notin DOMAIN simpleMatch /\ matching(servedPath) = {})
          => call.resp = calledErrfn(404)
    /\ (call.op = "HostServe" /\ servedHost \notin DOMAIN hostSimpleMatch
           /\ hostMatching(servedHost) = {})
          => call.resp = calledErrfn(404)

\* A path that nothing matches has been answered 404 by a router that has a
\* literal and a regex route.
C4_Witness ==
    /\ lookedUp
    /\ DOMAIN simpleMatch # {} /\ routes # <<>>
    /\ servedPath \notin DOMAIN simpleMatch /\ matching(servedPath) = {}
    /\ call.resp = calledErrfn(404)

\* C5: Serve calls the error function with 405 exactly when a route matches
\* the path, no slash redirect applies, and the route has no handler for the
\* method, none for GET if the method is HEAD, and none for "*".
C5_MethodNotAllowed ==
    call.op = "Serve" =>
        (call.resp = calledErrfn(405)
            <=> /\ lookedUp
                /\ servedRoute # 0
                /\ ~slashPending
                /\ ~resolves(servedHandlers, call.r.Method))

\* A PUT request on a route with GET and HEAD handlers has been answered 405.
C5_Witness ==
    /\ lookedUp /\ servedRoute # 0 /\ ~slashPending
    /\ call.r.Method = "PUT"
    /\ DOMAIN servedHandlers = {"GET", "HEAD"}
    /\ call.resp = calledErrfn(405)

\* C6: in RequestURI mode, when a handler is resolved for the request and a
\* named capture of the match has a malformed percent-escape, Serve calls the
\* error function with 400 and does not run the handler.
C6_BadRequest ==
    (lookedUp /\ ~useURLPath /\ servedRoute # 0 /\ ~slashPending
        /\ resolves(servedHandlers, call.r.Method) /\ badCapture)
        => call.resp = calledErrfn(400)

\* A request whose capture is "%2" has been answered 400 on a route with a
\* handler for its method.
C6_Witness ==
    /\ lookedUp /\ ~useURLPath /\ servedRoute # 0 /\ ~slashPending
    /\ resolves(servedHandlers, call.r.Method) /\ badCapture
    /\ call.resp = calledErrfn(400)

\* The query of the request of the last Serve call as a redirect carries it.
servedQuery ==
    IF useURLPath
    THEN IF call.r.URL.RawQuery # <<>> THEN <<"?">> \o call.r.URL.RawQuery ELSE <<>>
    ELSE queryPart(call.r.RequestURI)

\* C7: when the route found for a request has a pattern that ends in "/", a
\* request path without the final "/" is answered with a 301 redirect to that
\* path plus "/" and the query string, and a path with the final "/" goes to a
\* handler of the route.  (Stated for request targets whose escapes are well
\* formed.)
C7_TrailingSlashRedirect ==
    (lookedUp /\ servedRoute # 0 /\ routeObjs[servedRoute].addSlash
        /\ ~malformed(servedPath))
        => IF ~EndsInSlash(servedPath)
           THEN call.resp = redirected(servedPath \o <<"/">> \o servedQuery)
           ELSE resolves(servedHandlers, call.r.Method)
                   => /\ call.resp.kind = "handler"
                      /\ call.resp.handler.route = servedRoute

\* C8: in RequestURI mode, a request whose path differs from its normalized
\* form is answered 301 with the normalized path and the original query
\* string as the location; no handler and no error function is called.
C8_NormalizationRedirect ==
    (call.op = "Serve" /\ ~useURLPath
        /\ pathPart(call.r.RequestURI) # normalForm(pathPart(call.r.RequestURI)))
        => call.resp = redirected(normalForm(pathPart(call.r.RequestURI))
                                  \o queryPart(call.r.RequestURI))

\* C9: the path Serve computes is the cleaned path, with a trailing "/" added
\* only if the original path ended in "/" and the cleaned path does not; it
\* never holds two consecutive "/".
C9_NormalizedShape ==
    call.op = "normalize"
        => /\ call.cp = normalForm(call.p)
           /\ \A i \in 1..(Len(call.cp) - 1) : ~(call.cp[i] = "/" /\ call.cp[i + 1] = "/")

\* Pattern pat has no placeholder.
isLiteral(pat) == findParam(pat, 1).start = 0

\* C10: Add of a literal pattern that an already registered regex route
\* matches panics and leaves the literal map and the routes as they were, in
\* the path router and in the host router.
C10_LiteralAfterRegex ==
    [][/\ (call'.op = "Add" /\ isLiteral(call'.pat) /\ matching(call'.pat) # {})
            => /\ call'.panicked
               /\ UNCHANGED <<simpleMatch, routes, routeObjs>>
       /\ (call'.op = "HostAdd" /\ isLiteral(call'.pat) /\ hostMatching(call'.pat) # {})
            => /\ call'.panicked
               /\ UNCHANGED <<hostSimpleMatch, hostRoutes>>]_vars

\* Add of a literal pattern that a regex route matches, and that was no key
\* of the literal map, has panicked and the pattern is still no key.
C10_Witness ==
    /\ call.op = "Add"
    /\ isLiteral(call.pat)
    /\ matching(call.pat) # {}
    /\ call.panicked
    /\ call.pat \notin DOMAIN simpleMatch

\* Pattern pat is empty or its first byte is not "/".
noLeadingSlash(pat) == pat = <<>> \/ pat[1] # "/"

\* The expression compilePattern builds for pat compiles.
wellFormed(pat, sep) == ~compilePattern(pat, FALSE, sep).bad

\* C11 (as the claim states it): no key of the literal map is matched by a
\* regex route of the same router.
C11_NoLiteralMatchedByRegex ==
    /\ \A k \in DOMAIN simpleMatch : matching(k) = {}
    /\ \A k \in DOMAIN hostSimpleMatch : hostMatching(k) = {}

\* C11 (amended): Add of a pattern with placeholders is not checked against
\* the literal map: whenever its expression compiles, the call succeeds,
\* appends the route to the regex routes and leaves the literal map as it
\* was, whether or not the expression matches a literal key; in the path
\* router and in the host router.
C11_RegexAfterLiteral ==
    [][/\ (call'.op = "Add" /\ ~noLeadingSlash(call'.pat) /\ ~isLiteral(call'.pat)
            /\ wellFormed(call'.pat, "/"))
            => /\ ~call'.panicked
               /\ routes' = Append(routes, call'.route)
               /\ simpleMatch' = simpleMatch
       /\ (call'.op = "HostAdd" /\ ~isLiteral(call'.pat) /\ wellFormed(call'.pat, "."))
            => /\ ~call'.panicked
               /\ Len(hostRoutes') = Len(hostRoutes) + 1
               /\ hostRoutes'[Len(hostRoutes')].pat = call'.pat
               /\ hostSimpleMatch' = hostSimpleMatch]_vars

\* Add of a pattern with a placeholder has returned a route whose expression
\* matches a key that was in the literal map before.
C11_Witness ==
    /\ call.op = "Add"
    /\ ~isLiteral(call.pat)
    /\ ~call.panicked
    /\ \E k \in DOMAIN simpleMatch : call.route \in matching(k) /\ simpleMatch[k] < call.route

\* C12: Add panics for every pattern that is empty or does not begin with
\* "/"; a pattern that begins with "/" makes Add panic only when its
\* expression does not compile or when it is a literal that an existing route
\* already matches.
C12_PatternValidation ==
    [][call'.op = "Add"
        => (call'.panicked
              <=> \/ noLeadingSlash(call'.pat)
                  \/ ~wellFormed(call'.pat, "/")
                  \/ /\ isLiteral(call'.pat)
                     /\ (call'.pat \in DOMAIN simpleMatch \/ matching(call'.pat) # {}))]_vars

\* Add of a pattern that does not begin with "/" has panicked, on a router
\* that has a route.
C12_Witness ==
    /\ call.op = "Add"
    /\ call.pat = <<"a">>
    /\ call.panicked
    /\ routeObjs # <<>>

RECURSIVE defaultNames(_)
\* The names of the named placeholders of pat that carry no expression.
defaultNames(pat) ==
    LET a == findParam(pat, 1)
        name == SubSeq(pat, a.start + 1, a.nameEnd - 1)
    IN  IF a.start = 0 THEN {}
        ELSE (IF a.colon = 0 /\ name # <<>> THEN {name} ELSE {})
             \cup defaultNames(SubSeq(pat, a.close + 1, Len(pat)))

RECURSIVE allDefault(_)
\* No placeholder of pat carries an expression.
allDefault(pat) ==
    LET a == findParam(pat, 1)
    IN  a.start = 0 \/ (a.colon = 0 /\ allDefault(SubSeq(pat, a.close + 1, Len(pat))))

\* The number of bytes c in s.
count(s, c) == Cardinality({i \in 1..Len(s) : s[i] = c})

\* Every value captured under a name of defs is non-empty and holds no sep.
capturesWithin(names, values, defs, sep) ==
    \A i \in 1..Len(names) :
        names[i] \in defs => values[i] # <<>> /\ count(values[i], sep) = 0

\* C13: the text captured, before decoding, for a placeholder without
\* expression is non-empty and holds no separator ("/" in a path pattern, "."
\* in a host pattern); and a route whose placeholders all have no expression
\* matches only paths (hosts) with as many separators as its pattern, or one
\* "/" less when the pattern ends in "/".
C13_DefaultPlaceholder ==
    /\ (lookedUp /\ servedRoute # 0)
          => capturesWithin(findRoute(servedPath).names, findRoute(servedPath).values,
                            defaultNames(routeObjs[servedRoute].pat), "/")
    /\ lookedUp
          => \A id \in matching(servedPath) :
                allDefault(routeObjs[id].pat)
                    => \/ count(servedPath, "/") = count(routeObjs[id].pat, "/")
                       \/ /\ routeObjs[id].addSlash
                          /\ count(servedPath, "/") = count(routeObjs[id].pat, "/") - 1
    /\ (call.op = "HostServe" /\ ~hostFindRoute(servedHost).nil)
          => capturesWithin(hostFindRoute(servedHost).names, hostFindRoute(servedHost).values,
                            defaultNames(hostFindRoute(servedHost).route.pat), ".")
    /\ call.op = "HostServe"
          => \A i \in 1..Len(hostRoutes) :
                (allDefault(hostRoutes[i].pat)
                    /\ FindStringSubmatch(hostRoutes[i].cpat, servedHost) # <<>>)
                    => count(servedHost, ".") = count(hostRoutes[i].pat, ".")

\* A request for /a/a has been answered 404 by a router whose one route is
\* /<x>, and that route matches /a.
C13_Witness ==
    /\ lookedUp
    /\ servedPath = <<"/", "a", "/", "a">>
    /\ Len(routeObjs) = 1
    /\ routeObjs[1].pat = <<"/", "<", "x", ">">>
    /\ FindStringSubmatch(routeObjs[1].cpat, <<"/", "a">>) = << <<"/", "a">>, <<"a">> >>
    /\ call.resp = calledErrfn(404)

\* The value of a hex digit.
HexValue ==
    [d \in HexDigits |->
        CHOOSE v \in 0..15 :
            d \in { <<"0", "1", "2", "3", "4", "5", "6", "7", "8", "9",
                      "a", "b", "c", "d", "e", "f">>[v + 1],
                    <<"0", "1", "2", "3", "4", "5", "6", "7", "8", "9",
                      "A", "B", "C", "D", "E", "F">>[v + 1] }]

RECURSIVE refDecode(_)
\* The reference decoder on a string that is not malformed: each "%XY"
\* becomes the byte 16*X + Y, every other byte is copied.
refDecode(s) ==
    IF s = <<>> THEN <<>>
    ELSE IF s[1] = "%"
    THEN <<Chr((16 * HexValue[s[2]]) + HexValue[s[3]])>> \o refDecode(SubSeq(s, 4, Len(s)))
    ELSE <<s[1]>> \o refDecode(Tail(s))

\* C14: percentDecode fails exactly on the strings with a "%" that is not
\* followed by two hex digits; on every other string it returns what the
\* reference decoder returns, and a string without "%" is returned as it is.
C14_PercentDecode ==
    call.op = "percentDecode"
        => /\ call.res.err <=> malformed(call.s)
           /\ ~malformed(call.s) => call.res.s = refDecode(call.s)
           /\ (\A i \in 1..Len(call.s) : call.s[i] # "%")
                 => call.res = [err |-> FALSE, s |-> call.s]

\* percentDecode("%2F5") has returned "/5".
C14_Witness ==
    /\ call.op = "percentDecode"
    /\ call.s = <<"%", "2", "F", "5">>
    /\ call.res = [err |-> FALSE, s |-> <<"/", "5">>]

\* C15: in RequestURI mode the route is looked up with the path of the
\* request target as it was sent, escapes included, and only the captured
\* values are decoded: a request whose path resolves to a handler of a route
\* runs that handler, and the handler finds under each placeholder name the
\* decoded form of the text captured from the encoded path ("%2f" is matched
\* by a placeholder without expression and handed over as "/").
C15_EncodedMatching ==
    (lookedUp /\ ~useURLPath)
        => LET f == findRoute(pathPart(call.r.RequestURI))
           IN  /\ (f.route # 0 /\ ~slashPending /\ ~badCapture
                      /\ resolves(routeObjs[f.route].handlers, call.r.Method))
                     => call.resp.kind = "handler"
               /\ call.resp.kind = "handler"
                     => /\ call.resp.handler.route = f.route
                        /\ \A i \in 1..Len(f.names) :
                              f.names[i] # <<>>
                                  => Param(call.resp.ctx, f.names[i])
                                        = [value |-> refDecode(f.values[i]), ok |-> TRUE]

\* The request /%2f has run the handler of route /<x> with x = "/".
C15_Witness ==
    /\ lookedUp /\ ~useURLPath
    /\ call.r.RequestURI = <<"/", "%", "2", "f">>
    /\ call.resp.kind = "handler"
    /\ routeObjs[call.resp.handler.route].pat = <<"/", "<", "x", ">">>
    /\ Param(call.resp.ctx, <<"x">>) = [value |-> <<"/">>, ok |-> TRUE]

\* Host value h without its ":port" suffix (a ":" followed by digits up to
\* the end), and h in lower case.
Digits == {"0", "1", "2", "3", "4", "5", "6", "7", "8", "9"}
withoutPort(h) ==
    LET i == LastIndexByte(h, ":")
    IN  IF i > 0 /\ i < Len(h) /\ \A j \in (i + 1)..Len(h) : h[j] \in Digits
        THEN SubSeq(h, 1, i - 1)
        ELSE h
LowerOf == ("A" :> "a") @@ ("B" :> "b") @@ ("F" :> "f") @@ ("G" :> "g") @@ ("Z" :> "z")
lowerCase(h) == [i \in 1..Len(h) |-> IF h[i] \in DOMAIN LowerOf THEN LowerOf[h[i]] ELSE h[i]]

\* C16: a Host value is dispatched as the same value without its port suffix
\* and in lower case is: to the same route, with the same parameter values,
\* or to the same 404.
C16_HostNormalization ==
    call.op = "HostServe"
        => call.resp = hostServe(call.ctx, lowerCase(withoutPort(call.host)))

\* C17: after UseURLPath, Serve dispatches on URL.Path alone: 404 when no
\* route matches it, the trailing-slash redirect when the route found ends in
\* "/" and URL.Path does not, 405 when the route has no handler for the
\* method, else the handler chosen by the method fallback, which finds under
\* each placeholder name the text captured from URL.Path, not decoded.  No
\* answer is 400 and no redirect is a normalization redirect.
C17_UseURLPathMode ==
    (call.op = "Serve" /\ useURLPath)
        => LET path == call.r.URL.Path
               f == findRoute(path)
               m == call.r.Method
               hs == routeObjs[f.route].handlers
           IN  /\ call.resp.status # 400
               /\ call.resp.kind = "redirect"
                     => f.route # 0 /\ routeObjs[f.route].addSlash /\ ~EndsInSlash(path)
               /\ IF f.route = 0 THEN call.resp = calledErrfn(404)
                  ELSE IF routeObjs[f.route].addSlash /\ ~EndsInSlash(path)
                  THEN call.resp = redirected(path \o <<"/">> \o servedQuery)
                  ELSE IF ~resolves(hs, m) THEN call.resp = calledErrfn(405)
                  ELSE /\ call.resp.kind = "handler"
                       /\ call.resp.handler =
                             userHandler(f.route,
                                         IF m \in DOMAIN hs THEN m
                                         ELSE IF m = "HEAD" /\ "GET" \in DOMAIN hs THEN "GET"
                                         ELSE "*")
                       /\ \A i \in 1..Len(f.names) :
                             f.names[i] # <<>>
                                 => Param(call.resp.ctx, f.names[i])
                                       = [value |-> f.values[i], ok |-> TRUE]

\* After UseURLPath, the request /%252f (URL.Path /%2f) has run the handler of
\* route /<x> with x = "%2f".
C17_Witness ==
    /\ call.op = "Serve" /\ useURLPath
    /\ call.r.RequestURI = <<"/", "%", "2", "5", "2", "f">>
    /\ call.r.URL.Path = <<"/", "%", "2", "f">>
    /\ call.resp.kind = "handler"
    /\ Param(call.resp.ctx, <<"x">>) = [value |-> <<"%", "2", "f">>, ok |-> TRUE]

RECURSIVE namedPlaceholders(_)
\* The names of the named placeholders of pat.
namedPlaceholders(pat) ==
    LET a == findParam(pat, 1)
        name == SubSeq(pat, a.start + 1, a.nameEnd - 1)
    IN  IF a.start = 0 THEN {}
        ELSE (IF name # <<>> THEN {name} ELSE {})
             \cup namedPlaceholders(SubSeq(pat, a.close + 1, Len(pat)))

\* The names a handler may ask for: x, y, z and the empty name.
ProbeNames == { <<"x">>, <<"y">>, <<"z">>, <<>> }

\* The value matched under name n in a match with these names and values.
captured(names, values, n) == values[CHOOSE i \in 1..Len(names) : names[i] = n]

\* Context ctx holds, for caller context from and a route with pattern pat
\* whose match gave names and values: under each named placeholder of pat the
\* value matched for it (decoded if decode), and under every other name what
\* the caller context holds.
paramsOf(ctx, from, pat, names, values, decode) ==
    \A n \in ProbeNames :
        Param(ctx, n) =
            IF n \in namedPlaceholders(pat)
            THEN [value |-> IF decode THEN refDecode(captured(names, values, n))
                            ELSE captured(names, values, n),
                  ok |-> TRUE]
            ELSE Param(from, n)

\* C18: the context a handler is run with holds exactly the parameters of the
\* named placeholders of the matched route, each with the value captured for
\* it (decoded in RequestURI mode); a placeholder without name and a literal
\* route add nothing, and every other name is found or not as in the context
\* of the caller; in the path router and in the host router.
C18_ParamContext ==
    /\ (lookedUp /\ call.resp.kind = "handler")
          => paramsOf(call.resp.ctx, background, routeObjs[servedRoute].pat,
                      findRoute(servedPath).names, findRoute(servedPath).values,
                      ~useURLPath)
    /\ (call.op = "HostServe" /\ call.resp.kind = "handler")
          => paramsOf(call.resp.ctx, call.ctx, hostFindRoute(servedHost).route.pat,
                      hostFindRoute(servedHost).names, hostFindRoute(servedHost).values,
                      FALSE)

\* Host a.b has run the handler of route <x>.b, called with a context that
\* holds y: the handler finds x = "a", y as the caller gave it, and no z.
C18_Witness ==
    /\ call.op = "HostServe"
    /\ call.ctx = (<<"y">> :> <<"q">>)
    /\ call.resp.kind = "handler"
    /\ hostFindRoute(servedHost).route.pat = <<"<", "x", ">", ".", "b">>
    /\ Param(call.resp.ctx, <<"x">>) = [value |-> <<"a">>, ok |-> TRUE]
    /\ Param(call.resp.ctx, <<"y">>) = [value |-> <<"q">>, ok |-> TRUE]
    /\ ~Param(call.resp.ctx, <<"z">>).ok

\* C19: no Serve call of the path router and no Serve call of the host
\* router ends in a run-time panic, whatever the routes, the request target
\* (the empty one included), the method, the path mode and the Host value.
C19_NoPanic ==
    call.op \in {"Serve", "HostServe"} => call.resp.kind # "panic"

\* C20: with registration finished and Serve calls interleaved in every
\* way, a step of a Serve call never changes the route table (literal map,
\* regex list, routes with their method maps, path mode); the handler and
\* the parameters a call is about to run its handler with, and what a call
\* that returned did, are those of the same request served alone.
C20_ConcurrentIsolation ==
    /\ [](\A g \in Goroutines :
            /\ serving[g].pc = "invoke" =>
                   invoke(locals[g].handler,
                          withParams(background, locals[g].names, locals[g].values),
                          serving[g].r) = serve(background, serving[g].r)
            /\ serving[g].pc = "done" => serving[g].resp = serve(background, serving[g].r))
    /\ [][serving' # serving => UNCHANGED <<simpleMatch, routes, routeObjs, useURLPath>>]_vars

\* Two calls are in progress on a router with route /<x>, both about to run
\* the handler: one with x = "a", the other with x = "/" decoded from %2f.
C20_Witness ==
    /\ serving[1].pc = "invoke" /\ serving[2].pc = "invoke"
    /\ ~useURLPath
    /\ locals[1].handler.kind = "user" /\ locals[2].handler.kind = "user"
    /\ Param(withParams(background, locals[1].names, locals[1].values), <<"x">>).value = <<"a">>
    /\ Param(withParams(background, locals[2].names, locals[2].values), <<"x">>).value = <<"/">>

\* C21: for every list of supported values, encodeValues succeeds, and
\* decodeValues on its output with zero targets of the same types succeeds
\* and leaves in the targets the values that were encoded.
C21_ValueRoundTrip ==
    call.op = "EncodeDecodeValue"
        => ~call.err /\ ~call.res.err /\ call.res.values = call.values

\* The cookies issued whose value the last Decode call found in its request
\* and whose key is configured.
genuine ==
    { k \in 1..Len(issued) :
        /\ issued[k].value = call.s
        /\ \E i \in 1..Len(cc.hmacKeys) : cc.hmacKeys[i] = issued[k].key }

\* C22: Decode accepts a cookie only if it is, unchanged, one that Encode
\* signed under a key that is configured: for any other value Decode returns
\* an error and leaves the targets as they were.  A cookie signed under a key
\* that is still in the list, the first or not, decodes to the values that
\* were encoded unless it expired.
C22_SignedCookies ==
    call.op = "Decode" =>
        /\ genuine = {} => (call.res.err # "" /\ call.res.values = call.targets)
        /\ \A k \in genuine :
              IF expired(cc, issued[k].t, now)
              THEN call.res.err = "cookie: expired" /\ call.res.values = call.targets
              ELSE /\ call.res.err = ""
                   /\ \A i \in 1..Len(issued[k].values) :
                         call.res.values[i] = issued[k].values[i]

\* A cookie signed under the key that a rotation moved to the second place
\* is decoded.
C22_Witness ==
    /\ call.op = "Decode"
    /\ call.res.err = ""
    /\ Len(cc.hmacKeys) = 2
    /\ \E k \in genuine : issued[k].key = cc.hmacKeys[2] /\ issued[k].key # cc.hmacKeys[1]

RECURSIVE candidates(_, _, _, _)
\* The fields of struct type t that map to a column, with their names and
\* indexes, whatever the precedence: every path through the embedded structs
\* counts.  The types of the model embed no type in itself.
candidates(t, top, index, namePrefix) ==
    UNION { IF (~fieldsOf(t, top)[i].exported /\ ~fieldsOf(t, top)[i].Anonymous)
               \/ fieldsOf(t, top)[i].tag[1] = "-"
            THEN {}
            ELSE IF flattened(fieldsOf(t, top)[i])
            THEN candidates(elem(fieldsOf(t, top)[i].Type), top, Append(index, i - 1),
                            IF tagPrefix(fieldsOf(t, top)[i])
                            THEN columnName(fieldsOf(t, top)[i], namePrefix) \o "_"
                            ELSE namePrefix)
            ELSE {[Name |-> columnName(fieldsOf(t, top)[i], namePrefix),
                   Index |-> Append(index, i - 1)]} : i \in 1..Len(fieldsOf(t, top)) }

\* Field f has precedence over field g of the same column: its nesting level
\* is lower, or it is the same and f is defined first.
precedes(f, g) ==
    \/ Len(f.Index) < Len(g.Index)
    \/ Len(f.Index) = Len(g.Index) /\ indexLess(f.Index, g.Index)

\* C23: for every struct type, the fields FieldsForType returns are, for each
\* column name some field maps to, the field of lowest nesting level and,
\* among those, the one defined first.
C23_FieldPrecedence ==
    (call.op = "FieldsForType" /\ ~call.panicked) =>
        /\ \A f \in candidates("T", call.top, <<>>, "") :
              (\A g \in candidates("T", call.top, <<>>, "") :
                   g.Name = f.Name /\ g # f => precedes(f, g))
                 => \E k \in 1..Len(call.result) :
                       call.result[k].Name = f.Name /\ call.result[k].Index = f.Index
        /\ \A k \in 1..Len(call.result) :
              \E f \in candidates("T", call.top, <<>>, "") :
                 /\ call.result[k].Name = f.Name /\ call.result[k].Index = f.Index
                 /\ \A g \in candidates("T", call.top, <<>>, "") :
                       g.Name = f.Name /\ g # f => precedes(f, g)

\* The goroutines inside loadHTML or loadText for a template of kind kind,
\* between Lock and Unlock.
loading(kind) ==
    { g \in TemplateGoroutines :
        texec[g].pc \in {"load", "unlock"} /\ templates[texec[g].t].kind = kind }

\* C24: whatever the interleaving of the calls made on the templates after
\* Manager.Load, the load function of a template runs at most once, and
\* exactly once before any call gets past setup; a call uses the functions
\* of its template only after that load returned, and never finds them nil;
\* all calls on one template get the same setup error; and no two goroutines
\* are inside the load functions of templates that share a cache.
C24_LoadOnce ==
    /\ \A t \in 1..Len(templates) :
          /\ templates[t].loads <= 1
          /\ templates[t].done => templates[t].loads = 1
          /\ Cardinality(templates[t].seen) <= 1
    /\ \A g \in TemplateGoroutines :
          /\ texec[g].pc \in {"check", "use", "done"} =>
                templates[texec[g].t].done /\ templates[texec[g].t].loads = 1
          /\ texec[g].pc = "use" => templates[texec[g].t].bound
          /\ texec[g].res.kind # "panic"
          /\ texec[g].pc \in {"use", "done"} => texec[g].err = templates[texec[g].t].err
    /\ \A kind \in {"html", "text"} : Cardinality(loading(kind)) <= 1

\* Two goroutines called the same template while it was not set up; one ran
\* its load, both are past setup.
C24_Witness ==
    /\ \A g \in TemplateGoroutines : texec[g].pc = "done" /\ texec[g].t = 1
    /\ templates[1].loads = 1
    /\ tcalls = Cardinality(TemplateGoroutines)
    /\ manager.html.cache # <<>>

\* The kind of outcome the first applicable step of the dispatch gives a
\* request with path p and method m in RequestURI mode: the normalization
\* redirect, 404, the trailing-slash redirect, 405, 400, the handler.
firstApplicable(p, m) ==
    IF p # normalForm(p) THEN "redirect"
    ELSE IF findRoute(p).route = 0 THEN "404"
    ELSE IF routeObjs[findRoute(p).route].addSlash /\ ~EndsInSlash(p) THEN "redirect"
    ELSE IF ~resolves(routeObjs[findRoute(p).route].handlers, m) THEN "405"
    ELSE IF \E i \in 1..Len(findRoute(p).names) :
                findRoute(p).names[i] # <<>> /\ malformed(findRoute(p).values[i])
    THEN "400"
    ELSE "handler"

\* The kind of outcome of the last Serve call.
servedOutcome ==
    CASE call.resp.kind = "error" -> IF call.resp.status = 404 THEN "404"
                                     ELSE IF call.resp.status = 405 THEN "405"
                                     ELSE "400"
      [] OTHER -> call.resp.kind

\* C25: in RequestURI mode the outcome of a request is the one of the first
\* applicable step of: normalization redirect, 404, trailing-slash redirect,
\* 405, 400, handler.
C25_DispatchOrder ==
    (call.op = "Serve" /\ ~useURLPath)
        => servedOutcome = firstApplicable(pathPart(call.r.RequestURI), call.r.Method)

\* What the last Serve call produced: a call of a handler registered on a
\* route, a call of the error function with 404, 405 or 400, a 301 redirect.
producedBy ==
    { k \in {"handler", "error", "redirect"} :
        /\ call.resp.kind = k
        /\ k = "handler" =>
              /\ call.resp.handler.kind = "user"
              /\ call.resp.handler.route \in 1..Len(routeObjs)
              /\ call.resp.handler.method \in DOMAIN routeObjs[call.resp.handler.route].handlers
        /\ k = "error" => call.resp.status \in {404, 405, 400}
        /\ k = "redirect" => call.resp.status = 301 }

\* C26: every Serve call of the path router ends having produced exactly one
\* outcome: one call of one registered handler, one call of the error
\* function with 404, 405 or 400, or one 301 redirect; never none of them.
C26_SingleOutcome ==
    call.op = "Serve" => Cardinality(producedBy) = 1

\* Pattern pat is a literal pattern "P/": it has no placeholder, is not "/"
\* and ends in "/".
slashLiteral(pat) == isLiteral(pat) /\ pat # <<"/">> /\ EndsInSlash(pat)

\* Pattern pat without its last byte.
slashLess(pat) == SubSeq(pat, 1, Len(pat) - 1)

\* Routes i and j are the literal patterns "P" and "P/", in that order.
literalThenSlash(i, j) ==
    /\ i < j
    /\ slashLiteral(routeObjs[j].pat)
    /\ routeObjs[i].pat = slashLess(routeObjs[j].pat)

\* C27: an Add of a literal pattern "P/" that returns has made "P/" a key of
\* the new route; it has made "P" a key of the same route if no route was
\* found for "P" before (no literal key, no regex route that matches), and
\* has left the key "P" as it was otherwise.  When literal "P" was registered
\* before "P/", a request for "P" is served by the route of "P" without a
\* redirect and a request for "P/" by the route of "P/".
C27_SlashLessAlias ==
    [][/\ (call'.op = "Add" /\ ~call'.panicked /\ slashLiteral(call'.pat))
            => /\ call'.pat \in DOMAIN simpleMatch'
               /\ simpleMatch'[call'.pat] = call'.route
               /\ IF slashLess(call'.pat) \in DOMAIN simpleMatch
                  THEN /\ slashLess(call'.pat) \in DOMAIN simpleMatch'
                       /\ simpleMatch'[slashLess(call'.pat)] = simpleMatch[slashLess(call'.pat)]
                  ELSE IF matching(slashLess(call'.pat)) # {}
                  THEN slashLess(call'.pat) \notin DOMAIN simpleMatch'
                  ELSE /\ slashLess(call'.pat) \in DOMAIN simpleMatch'
                       /\ simpleMatch'[slashLess(call'.pat)] = call'.route
       /\ call'.op = "Serve"
            => \A i, j \in 1..Len(routeObjs) :
                  literalThenSlash(i, j)
                     => /\ call'.r.RequestURI = routeObjs[i].pat
                           => call'.resp.kind # "redirect"
                              /\ IF resolves(routeObjs[i].handlers, call'.r.Method)
                                 THEN /\ call'.resp.kind = "handler"
                                      /\ call'.resp.handler.route = i
                                 ELSE call'.resp = calledErrfn(405)
                        /\ call'.r.RequestURI = routeObjs[j].pat
                           => IF resolves(routeObjs[j].handlers, call'.r.Method)
                              THEN /\ call'.resp.kind = "handler"
                                   /\ call'.resp.handler.route = j
                              ELSE call'.resp = calledErrfn(405)]_vars

\* Add("P/") has returned on a router where literal "P" was registered
\* before: "P/" is a key of the new route and "P" is still a key of the
\* older one.
C27_Witness ==
    /\ call.op = "Add" /\ ~call.panicked /\ slashLiteral(call.pat)
    /\ simpleMatch[call.pat] = call.route
    /\ slashLess(call.pat) \in DOMAIN simpleMatch
    /\ simpleMatch[slashLess(call.pat)] # call.route

\* C28: an Add call of the path router or of the host router that panics
\* (invalid pattern, placeholder expression that does not compile, literal
\* for which a route is found) leaves the literal map, the ordered regex
\* list, the routes and the path mode as they were, and with them the route
\* found for the path or host of every request.
C28_FailedAddLeavesRouter ==
    [][/\ (call'.op = "Add" /\ call'.panicked)
            => /\ simpleMatch' = simpleMatch
               /\ routes' = routes
               /\ routeObjs' = routeObjs
               /\ useURLPath' = useURLPath
               /\ \A uri \in RequestTargets :
                     findRouteIn(simpleMatch', routes', routeObjs', pathPart(uri))
                        = findRouteIn(simpleMatch, routes, routeObjs, pathPart(uri))
       /\ (call'.op = "HostAdd" /\ call'.panicked)
            => /\ hostSimpleMatch' = hostSimpleMatch
               /\ hostRoutes' = hostRoutes
               /\ \A host \in Hosts :
                     scanHostRoutes(hostRoutes', ToLower(StripPort(host)), 1)
                        = scanHostRoutes(hostRoutes, ToLower(StripPort(host)), 1)]_vars

\* Add has panicked on a pattern whose expression does not compile, on a
\* router that has a route.
C28_Witness ==
    /\ call.op = "Add" /\ call.panicked
    /\ ~invalidPattern(call.pat)
    /\ compilePattern(call.pat, FALSE, "/").bad
    /\ routeObjs # <<>>

\* C29: Add of a literal pattern that is a key of the literal map panics:
\* the same literal registered twice, and "P" registered after "P/" (a
\* literal "P" after literal "P/" panics in every case).  Add of "P/" after
\* literal "P" returns, where no regex route matches "P/".
C29_LiteralConflicts ==
    [][call'.op = "Add"
          => /\ call'.pat \in DOMAIN simpleMatch => call'.panicked
             /\ (\E j \in 1..Len(routeObjs) :
                    /\ slashLiteral(routeObjs[j].pat)
                    /\ call'.pat = slashLess(routeObjs[j].pat))
                  => call'.panicked
             /\ (/\ slashLiteral(call'.pat)
                 /\ call'.pat \notin DOMAIN simpleMatch
                 /\ matching(call'.pat) = {}
                 /\ \E i \in 1..Len(routeObjs) : routeObjs[i].pat = slashLess(call'.pat))
                  => /\ ~call'.panicked
                     /\ call'.route = Len(routeObjs')
                     /\ routeObjs'[call'.route].pat = call'.pat]_vars

\* Add("P") has panicked after Add("P/") made "P" a key of the route of "P/".
C29_Witness ==
    /\ call.op = "Add" /\ call.panicked
    /\ call.pat \in DOMAIN simpleMatch
    /\ routeObjs[simpleMatch[call.pat]].pat = call.pat \o <<"/">>

\* The answer resp to request r is the trailing-slash redirect: a redirect
\* that is not the one of the normalization step.
slashRedirected(r, resp) ==
    /\ resp.kind = "redirect"
    /\ useURLPath \/ pathPart(r.RequestURI) = normalize(pathPart(r.RequestURI))

\* C30: the path Serve computes is a fixed point of the computation; a
\* request that follows a trailing-slash redirect is not answered by a
\* trailing-slash redirect again; and a client that follows the 301 answers
\* gets a handler, 404, 405 or 400 after at most MaxHops redirects.
C30_RedirectsDoNotLoop ==
    /\ call.op = "normalize" => normalize(call.cp) = call.cp
    /\ call.op = "Follow"
          => /\ call.resp.kind \in {"handler", "error", "redirect"}
             /\ ~slashRedirected(call.prev, redirected(<<>>))
                   => pathPart(call.r.RequestURI) = normalize(pathPart(call.r.RequestURI))
             /\ slashRedirected(call.prev, redirected(<<>>))
                   => ~slashRedirected(call.r, call.resp)
             /\ call.hops = MaxHops => call.resp.kind # "redirect"

====
